---- MODULE Spec2Model ----
(***************************************************************************)
(* Model of the mvgo operation container (codec.Op): building, binary and  *)
(* JSON serialization, watermark selection, digest, signing and the fee    *)
(* convergence loop of Op.WithLimits.                                      *)
(*                                                                         *)
(* Byte strings are sequences of integers 0..255 with their real lengths.  *)
(* Hashes and signatures are stand-ins with the real widths (32 and 64     *)
(* bytes); everything else follows the Go source statement by statement.   *)
(***************************************************************************)
EXTENDS Integers, Sequences, FiniteSets, TLC

VARIABLES op, last, wl, mon

vars == <<op, last, wl, mon>>

(***************************************************************************)
(* Bounds of the model                                                     *)
(***************************************************************************)
MaxContents == 2

MaxLimits == 2

MaxOracleFee == 6

FeeLoopCeiling == 4

(***************************************************************************)
(* Watermark constants                                                     *)
(***************************************************************************)
EmmyEndorsementWatermark == 2

OperationWatermark == 3

TenderbakePreendorsementWatermark == 18

TenderbakeEndorsementWatermark == 19

(***************************************************************************)
(* Generic helpers                                                         *)
(***************************************************************************)
max64(a, b) == IF a > b THEN a ELSE b

Repeat(b, n) == [j \in 1..n |-> b]

RECURSIVE Flatten(_)
Flatten(ss) == IF ss = <<>> THEN <<>> ELSE Head(ss) \o Flatten(Tail(ss))

\* big-endian fixed width unsigned integer (enc = binary.BigEndian)
RECURSIVE BigEndian(_, _)
BigEndian(n, width) ==
    IF width = 0 THEN <<>>
    ELSE BigEndian(n \div 256, width - 1) \o <<n % 256>>

(***************************************************************************)
(* mavryk primitives                                                       *)
(***************************************************************************)
\* mavryk.N: zarith natural, 7 bits per byte, low group first, 0x80 = more
RECURSIVE EncodeN(_)
EncodeN(n) ==
    IF n < 128 THEN <<n>>
    ELSE <<128 + (n % 128)>> \o EncodeN(n \div 128)

\* addresses are 0 (the zero, invalid address) or a key hash id
InvalidAddress == 0

AddressIsValid(a) == a # InvalidAddress

\* Address.Encode: 1 type byte and the 20 byte hash
AddressEncode(a) == <<0>> \o Repeat(a, 20)

\* block hashes: 32 bytes, the zero hash is not valid
ZeroBlockHash == Repeat(0, 32)

Branch1 == Repeat(177, 32)

BlockHashIsValid(h) == h # ZeroBlockHash

\* chain ids: nil pointer or 4 bytes
NilChainId == <<>>

Mainnet == <<122, 6, 167, 112>>

ChainIdBytes(c) == c

\* signatures: a type and raw data; valid when the data has the type's width
SignatureLen == 64

ZeroSignature == [Type |-> "ed25519", Data |-> <<>>]

InvalidSignature == [Type |-> "invalid", Data |-> <<>>]

SignatureIsValid(s) == s.Type # "invalid" /\ Len(s.Data) = SignatureLen

\* mavryk.Digest: 32 byte hash; a position weighted checksum stands in for
\* blake2b
RECURSIVE WeightedSum(_, _, _)
WeightedSum(b, lo, hi) ==
    IF lo > hi THEN 0
    ELSE IF lo = hi THEN (lo * (b[lo] + 1)) % 65521
    ELSE LET mid == (lo + hi) \div 2
         IN  (WeightedSum(b, lo, mid) + WeightedSum(b, mid + 1, hi)) % 65521

Digest(b) ==
    LET c == WeightedSum(b, 1, Len(b)) + 7 * Len(b)
    IN  [j \in 1..32 |-> (c \div (1 + (j % 5)) + j) % 256]

\* private keys: 0 is the invalid key whose Sign fails
InvalidKey == 0

Keys == {0, 1}

KeySignFails(k) == k = InvalidKey

KeySign(k, digest) ==
    [Type |-> "ed25519",
     Data |-> [j \in 1..SignatureLen |->
                  (k * 101 + digest[((j - 1) % 32) + 1] + j) % 256]]

\* protocol params: only the tags version matters to the codec
NilParams == [nil |-> TRUE, OperationTagsVersion |-> 0]

ParamsV(v) == [nil |-> FALSE, OperationTagsVersion |-> v]

DefaultParams == ParamsV(2)

(***************************************************************************)
(* Operation variants.  An operation is a record; "type" is the name of    *)
(* the Go struct.  Fields a variant does not have stay at their zero value.*)
(***************************************************************************)
ZeroOperation ==
    [type |-> "", Source |-> InvalidAddress, Fee |-> 0, Counter |-> 0,
     GasLimit |-> 0, StorageLimit |-> 0, Delegate |-> InvalidAddress,
     ConsensusKey |-> InvalidAddress, Destination |-> InvalidAddress,
     Level |-> 0, Solution |-> <<>>, Amount |-> 0, HasParameters |-> FALSE,
     Parameters |-> <<>>, HasLimit |-> FALSE, Limit |-> 0, Period |-> 0,
     Proposal |-> 0, Proposals |-> <<>>, Ballot |-> 0,
     PublicKeyHash |-> InvalidAddress, Secret |-> <<>>,
     Attestor |-> InvalidAddress, Attestation |-> 0, Rollup |-> 0,
     Cemented |-> 0, Proof |-> <<>>, Pvm |-> 0, Kernel |-> <<>>,
     Type |-> <<>>, Arbitrary |-> <<>>]

NewOperation(t) == [ZeroOperation EXCEPT !.type = t]

\* variants that embed Manager; all others embed Simple
ManagerTypes ==
    {"Delegation", "Transaction", "SetDepositsLimit", "IncreasePaidStorage",
     "SmartRollupOriginate", "SmartRollupExecuteOutboxMessage",
     "Origination", "RegisterGlobalConstant"}

IsManager(o) == o.type \in ManagerTypes

\* Kind() of each variant
Kind(o) ==
    CASE o.type = "Endorsement" -> "OpTypeEndorsement"
      [] o.type = "TenderbakeEndorsement" -> "OpTypeEndorsement"
      [] o.type = "TenderbakePreendorsement" -> "OpTypePreendorsement"
      [] o.type = "EndorsementWithSlot" -> "OpTypeEndorsementWithSlot"
      [] o.type = "Delegation" -> "OpTypeDelegation"
      [] o.type = "DrainDelegate" -> "OpTypeDrainDelegate"
      [] o.type = "VdfRevelation" -> "OpTypeVdfRevelation"
      [] o.type = "Transaction" -> "OpTypeTransaction"
      [] o.type = "SetDepositsLimit" -> "OpTypeSetDepositsLimit"
      [] o.type = "IncreasePaidStorage" -> "OpTypeIncreasePaidStorage"
      [] o.type = "Ballot" -> "OpTypeBallot"
      [] o.type = "Proposals" -> "OpTypeProposals"
      [] o.type = "ActivateAccount" -> "OpTypeActivateAccount"
      [] o.type = "DalAttestation" -> "OpTypeDalAttestation"
      [] o.type = "FailingNoop" -> "OpTypeFailingNoop"
      [] o.type = "SmartRollupOriginate" -> "OpTypeSmartRollupOriginate"
      [] o.type = "SmartRollupExecuteOutboxMessage" ->
            "OpTypeSmartRollupExecuteOutboxMessage"
      [] OTHER -> "OpTypeInvalid"

\* OpType.String(): the protocol's operation name
KindString(k) ==
    CASE k = "OpTypeEndorsement" -> "endorsement"
      [] k = "OpTypePreendorsement" -> "preendorsement"
      [] k = "OpTypeEndorsementWithSlot" -> "endorsement_with_slot"
      [] k = "OpTypeDelegation" -> "delegation"
      [] k = "OpTypeDrainDelegate" -> "drain_delegate"
      [] k = "OpTypeVdfRevelation" -> "vdf_revelation"
      [] k = "OpTypeTransaction" -> "transaction"
      [] k = "OpTypeSetDepositsLimit" -> "set_deposits_limit"
      [] k = "OpTypeIncreasePaidStorage" -> "increase_paid_storage"
      [] k = "OpTypeBallot" -> "ballot"
      [] k = "OpTypeProposals" -> "proposals"
      [] k = "OpTypeActivateAccount" -> "activate_account"
      [] k = "OpTypeDalAttestation" -> "dal_attestation"
      [] k = "OpTypeFailingNoop" -> "failing_noop"
      [] k = "OpTypeSmartRollupOriginate" -> "smart_rollup_originate"
      [] k = "OpTypeSmartRollupExecuteOutboxMessage" ->
            "smart_rollup_execute_outbox_message"
      [] OTHER -> ""

\* OpType.TagVersion(ver): tag byte of a kind in a tags version, 255 if the
\* kind does not exist in that version
TagVersion(k, ver) ==
    CASE k = "OpTypeEndorsement" -> IF ver < 2 THEN 0 ELSE 21
      [] k = "OpTypePreendorsement" -> IF ver < 2 THEN 255 ELSE 20
      [] k = "OpTypeEndorsementWithSlot" -> IF ver = 1 THEN 10 ELSE 255
      [] k = "OpTypeDelegation" -> IF ver = 0 THEN 10 ELSE 110
      [] k = "OpTypeDrainDelegate" -> IF ver < 2 THEN 255 ELSE 9
      [] k = "OpTypeVdfRevelation" -> IF ver < 2 THEN 255 ELSE 8
      [] k = "OpTypeTransaction" -> IF ver = 0 THEN 8 ELSE 108
      [] k = "OpTypeSetDepositsLimit" -> IF ver < 2 THEN 255 ELSE 112
      [] k = "OpTypeIncreasePaidStorage" -> IF ver < 2 THEN 255 ELSE 113
      [] k = "OpTypeBallot" -> 6
      [] k = "OpTypeProposals" -> 5
      [] k = "OpTypeActivateAccount" -> 4
      [] k = "OpTypeDalAttestation" -> IF ver < 2 THEN 255 ELSE 22
      [] k = "OpTypeFailingNoop" -> 17
      [] k = "OpTypeSmartRollupOriginate" -> IF ver < 2 THEN 255 ELSE 200
      [] k = "OpTypeSmartRollupExecuteOutboxMessage" ->
            IF ver < 2 THEN 255 ELSE 206
      [] OTHER -> 255

\* Simple / Manager accessors
OperationLimits(o) ==
    IF IsManager(o)
    THEN [Fee |-> o.Fee, GasLimit |-> o.GasLimit,
          StorageLimit |-> o.StorageLimit]
    ELSE [Fee |-> 0, GasLimit |-> 0, StorageLimit |-> 0]

\* variant: a fee-less operation reports the zero counter
GetCounter_SimpleZero(o) == IF IsManager(o) THEN o.Counter ELSE 0

GetCounter(o) == IF IsManager(o) THEN o.Counter ELSE -1

\* Simple.WithCounter does nothing; Manager.WithCounter stores the counter
OperationWithCounter(o, c) ==
    IF IsManager(o) THEN [o EXCEPT !.Counter = c] ELSE o

OperationWithLimits(o, limits) ==
    IF IsManager(o)
    THEN [o EXCEPT !.Fee = limits.Fee, !.GasLimit = limits.GasLimit,
                   !.StorageLimit = limits.StorageLimit]
    ELSE o

\* variant: only a missing source is filled in
OperationWithSource_OnlyUnset(o, addr) ==
    IF IsManager(o) /\ o.Source = InvalidAddress
    THEN [o EXCEPT !.Source = addr]
    ELSE o

OperationWithSource(o, addr) ==
    IF IsManager(o) THEN [o EXCEPT !.Source = addr] ELSE o

\* Manager.EncodeBuffer
ManagerEncodeBuffer(o) ==
    AddressEncode(o.Source) \o EncodeN(o.Fee) \o EncodeN(o.Counter)
        \o EncodeN(o.GasLimit) \o EncodeN(o.StorageLimit)

\* Delegation.EncodeBuffer
DelegationEncodeBuffer(o, p) ==
    <<TagVersion(Kind(o), p.OperationTagsVersion)>>
        \o ManagerEncodeBuffer(o)
        \o (IF AddressIsValid(o.Delegate)
            THEN <<255>> \o AddressEncode(o.Delegate)
            ELSE <<0>>)

\* DrainDelegate.EncodeBuffer
DrainDelegateEncodeBuffer(o, p) ==
    <<TagVersion(Kind(o), p.OperationTagsVersion)>>
        \o AddressEncode(o.ConsensusKey) \o AddressEncode(o.Delegate)
        \o AddressEncode(o.Destination)

\* Endorsement.EncodeBuffer (legacy): tag, level
EndorsementEncodeBuffer(o, p) ==
    <<TagVersion(Kind(o), p.OperationTagsVersion)>> \o BigEndian(o.Level, 4)

\* TenderbakeEndorsement / TenderbakePreendorsement: tag, slot, level,
\* round, block payload hash
TenderbakeEncodeBuffer(o, p) ==
    <<TagVersion(Kind(o), p.OperationTagsVersion)>>
        \o BigEndian(0, 2) \o BigEndian(o.Level, 4) \o BigEndian(0, 4)
        \o Repeat(0, 32)

\* EndorsementWithSlot: tag, length, inlined endorsement (branch, tag,
\* level, signature), slot
EndorsementWithSlotEncodeBuffer(o, p) ==
    LET inlined == Repeat(0, 32)
                     \o <<TagVersion("OpTypeEndorsement",
                                     p.OperationTagsVersion)>>
                     \o BigEndian(o.Level, 4) \o Repeat(0, SignatureLen)
    IN  <<TagVersion(Kind(o), p.OperationTagsVersion)>>
            \o BigEndian(Len(inlined), 4) \o inlined \o BigEndian(0, 2)

\* VdfRevelation.EncodeBuffer: tag and the solution bytes as they are
VdfRevelationEncodeBuffer(o, p) ==
    <<TagVersion(Kind(o), p.OperationTagsVersion)>> \o o.Solution

\* mavryk.Z: zarith integer; the first byte holds the sign bit and 6 bits,
\* the bytes after it 7 bits each (only values >= 0 are used)
EncodeZ(n) ==
    IF n < 64 THEN <<n>>
    ELSE <<128 + (n % 64)>> \o EncodeN(n \div 64)

\* Address.EncodePadded: the 22 byte contract id of an implicit account
AddressEncodePadded(a) == <<0>> \o AddressEncode(a)

\* 32 byte hashes (protocol, commitment) with id h
HashBytes(h) == Repeat(h, 32)

\* writeBytesWithLen: 4 byte length and the bytes
writeBytesWithLen(b) == BigEndian(Len(b), 4) \o b

\* Transaction.EncodeBuffer
TransactionEncodeBuffer(o, p) ==
    <<TagVersion(Kind(o), p.OperationTagsVersion)>>
        \o ManagerEncodeBuffer(o) \o EncodeN(o.Amount)
        \o AddressEncodePadded(o.Destination)
        \o (IF o.HasParameters
            THEN <<255>> \o writeBytesWithLen(o.Parameters)
            ELSE <<0>>)

\* SetDepositsLimit.EncodeBuffer
SetDepositsLimitEncodeBuffer(o, p) ==
    <<TagVersion(Kind(o), p.OperationTagsVersion)>>
        \o ManagerEncodeBuffer(o)
        \o (IF ~o.HasLimit THEN <<0>> ELSE <<255>> \o EncodeN(o.Limit))

\* IncreasePaidStorage.EncodeBuffer
IncreasePaidStorageEncodeBuffer(o, p) ==
    <<TagVersion(Kind(o), p.OperationTagsVersion)>>
        \o ManagerEncodeBuffer(o) \o EncodeZ(o.Amount)
        \o AddressEncodePadded(o.Destination)

\* Ballot.EncodeBuffer
BallotEncodeBuffer(o, p) ==
    <<TagVersion(Kind(o), p.OperationTagsVersion)>>
        \o AddressEncode(o.Source) \o BigEndian(o.Period, 4)
        \o HashBytes(o.Proposal) \o <<o.Ballot>>

\* Proposals.EncodeBuffer
ProposalsEncodeBuffer(o, p) ==
    <<TagVersion(Kind(o), p.OperationTagsVersion)>>
        \o AddressEncode(o.Source) \o BigEndian(o.Period, 4)
        \o BigEndian(Len(o.Proposals) * 32, 4)
        \o Flatten([k \in 1..Len(o.Proposals) |-> HashBytes(o.Proposals[k])])

\* ActivateAccount.EncodeBuffer: the 20 hash bytes of the address, secret
ActivateAccountEncodeBuffer(o, p) ==
    <<TagVersion(Kind(o), p.OperationTagsVersion)>>
        \o Tail(AddressEncode(o.PublicKeyHash)) \o o.Secret

\* DalAttestation.EncodeBuffer
DalAttestationEncodeBuffer(o, p) ==
    <<TagVersion(Kind(o), p.OperationTagsVersion)>>
        \o AddressEncode(o.Attestor) \o EncodeZ(o.Attestation)
        \o BigEndian(o.Level, 4)

\* SmartRollupOriginate.EncodeBuffer
SmartRollupOriginateEncodeBuffer(o, p) ==
    <<TagVersion(Kind(o), p.OperationTagsVersion)>>
        \o ManagerEncodeBuffer(o) \o <<o.Pvm>>
        \o writeBytesWithLen(o.Kernel) \o writeBytesWithLen(o.Proof)
        \o writeBytesWithLen(o.Type)

\* SmartRollupExecuteOutboxMessage.EncodeBuffer
SmartRollupExecuteOutboxMessageEncodeBuffer(o, p) ==
    <<TagVersion(Kind(o), p.OperationTagsVersion)>>
        \o ManagerEncodeBuffer(o) \o Repeat(o.Rollup, 20)
        \o HashBytes(o.Cemented) \o writeBytesWithLen(o.Proof)

\* FailingNoop.EncodeBuffer: tag, then the message with its length
FailingNoopEncodeBuffer(o, p) ==
    <<TagVersion(Kind(o), p.OperationTagsVersion)>>
        \o writeBytesWithLen(o.Arbitrary)

\* Operation.EncodeBuffer, dispatched on the variant
EncodeBuffer(o, p) ==
    CASE o.type = "Delegation" -> DelegationEncodeBuffer(o, p)
      [] o.type = "DrainDelegate" -> DrainDelegateEncodeBuffer(o, p)
      [] o.type = "VdfRevelation" -> VdfRevelationEncodeBuffer(o, p)
      [] o.type = "Transaction" -> TransactionEncodeBuffer(o, p)
      [] o.type = "SetDepositsLimit" -> SetDepositsLimitEncodeBuffer(o, p)
      [] o.type = "IncreasePaidStorage" ->
            IncreasePaidStorageEncodeBuffer(o, p)
      [] o.type = "Ballot" -> BallotEncodeBuffer(o, p)
      [] o.type = "Proposals" -> ProposalsEncodeBuffer(o, p)
      [] o.type = "ActivateAccount" -> ActivateAccountEncodeBuffer(o, p)
      [] o.type = "DalAttestation" -> DalAttestationEncodeBuffer(o, p)
      [] o.type = "FailingNoop" -> FailingNoopEncodeBuffer(o, p)
      [] o.type = "SmartRollupOriginate" ->
            SmartRollupOriginateEncodeBuffer(o, p)
      [] o.type = "SmartRollupExecuteOutboxMessage" ->
            SmartRollupExecuteOutboxMessageEncodeBuffer(o, p)
      [] o.type = "Endorsement" -> EndorsementEncodeBuffer(o, p)
      [] o.type = "TenderbakeEndorsement" -> TenderbakeEncodeBuffer(o, p)
      [] o.type = "TenderbakePreendorsement" -> TenderbakeEncodeBuffer(o, p)
      [] o.type = "EndorsementWithSlot" ->
            EndorsementWithSlotEncodeBuffer(o, p)
      [] OTHER -> <<>>

\* the contents list encoded in list order
EncodeContents(contents, p) ==
    Flatten([k \in 1..Len(contents) |-> EncodeBuffer(contents[k], p)])

\* Delegation.MarshalJSON, DrainDelegate.MarshalJSON and the consensus
\* variants: a JSON object is a function from field names to values
OperationMarshalJSON(o) ==
    CASE o.type = "Delegation" ->
            IF AddressIsValid(o.Delegate)
            THEN [kind |-> KindString(Kind(o)), source |-> o.Source,
                  fee |-> o.Fee, counter |-> o.Counter,
                  gas_limit |-> o.GasLimit,
                  storage_limit |-> o.StorageLimit,
                  delegate |-> o.Delegate]
            ELSE [kind |-> KindString(Kind(o)), source |-> o.Source,
                  fee |-> o.Fee, counter |-> o.Counter,
                  gas_limit |-> o.GasLimit,
                  storage_limit |-> o.StorageLimit]
      [] o.type = "DrainDelegate" ->
            [kind |-> KindString(Kind(o)), consensus_key |-> o.ConsensusKey,
             delegate |-> o.Delegate, destination |-> o.Destination]
      [] o.type = "VdfRevelation" ->
            [kind |-> KindString(Kind(o)), solution |-> o.Solution]
      [] OTHER -> [kind |-> KindString(Kind(o)), level |-> o.Level]

(***************************************************************************)
(* Op container: pure methods                                              *)
(***************************************************************************)
\* NewOp(): default params, nothing else set
NewOp ==
    [Branch |-> ZeroBlockHash, Contents |-> <<>>,
     Signature |-> ZeroSignature, ChainId |-> NilChainId,
     Params |-> DefaultParams, Source |-> InvalidAddress]

\* p := o.Params; if p == nil { p = mavryk.DefaultParams }
ParamsOrDefault(o) == IF o.Params.nil THEN DefaultParams ELSE o.Params

\* Bytes with the signature data appended without asking IsValid
Bytes_SignatureAlways(o) ==
    IF Len(o.Contents) = 0 \/ ~BlockHashIsValid(o.Branch) THEN <<>>
    ELSE LET p == ParamsOrDefault(o)
             buf == o.Branch \o EncodeContents(o.Contents, p)
         IN  IF Kind(o.Contents[1]) = "OpTypeEndorsementWithSlot" THEN buf
             ELSE buf \o o.Signature.Data

\* Bytes that only looks at the contents and not at the branch
Bytes_NoBranchCheck(o) ==
    IF Len(o.Contents) = 0 THEN <<>>
    ELSE LET p == ParamsOrDefault(o)
             buf == o.Branch \o EncodeContents(o.Contents, p)
         IN  IF Kind(o.Contents[1]) = "OpTypeEndorsementWithSlot" THEN buf
             ELSE IF SignatureIsValid(o.Signature)
                  THEN buf \o o.Signature.Data
                  ELSE buf

\* Op.Bytes; <<>> is the nil slice
Bytes(o) ==
    IF Len(o.Contents) = 0 \/ ~BlockHashIsValid(o.Branch) THEN <<>>
    ELSE LET p == ParamsOrDefault(o)
             buf == o.Branch \o EncodeContents(o.Contents, p)
         IN  IF Kind(o.Contents[1]) = "OpTypeEndorsementWithSlot" THEN buf
             ELSE IF SignatureIsValid(o.Signature)
                  THEN buf \o o.Signature.Data
                  ELSE buf

\* the watermark switch taken on the last operation of the batch
WatermarkPrefix_LastKind(o, p) ==
    LET k == Kind(o.Contents[Len(o.Contents)])
        chain == IF o.ChainId # NilChainId THEN ChainIdBytes(o.ChainId)
                 ELSE <<>>
    IN  CASE k \in {"OpTypeEndorsement", "OpTypeEndorsementWithSlot"} ->
                (IF p.OperationTagsVersion < 2
                 THEN <<EmmyEndorsementWatermark>>
                 ELSE <<TenderbakeEndorsementWatermark>>) \o chain
          [] k = "OpTypePreendorsement" ->
                <<TenderbakePreendorsementWatermark>> \o chain
          [] OTHER -> <<OperationWatermark>>

\* the watermark switch writing the chain id in the current era only
WatermarkPrefix_CurrentEraChain(o, p) ==
    LET k == Kind(o.Contents[1])
        chain == IF o.ChainId # NilChainId /\ p.OperationTagsVersion >= 2
                 THEN ChainIdBytes(o.ChainId)
                 ELSE <<>>
    IN  CASE k \in {"OpTypeEndorsement", "OpTypeEndorsementWithSlot"} ->
                (IF p.OperationTagsVersion < 2
                 THEN <<EmmyEndorsementWatermark>>
                 ELSE <<TenderbakeEndorsementWatermark>>) \o chain
          [] k = "OpTypePreendorsement" ->
                <<TenderbakePreendorsementWatermark>> \o chain
          [] OTHER -> <<OperationWatermark>>

\* the switch on o.Contents[0].Kind() in Op.WatermarkedBytes
WatermarkPrefix(o, p) ==
    LET k == Kind(o.Contents[1])
        chain == IF o.ChainId # NilChainId THEN ChainIdBytes(o.ChainId)
                 ELSE <<>>
    IN  CASE k \in {"OpTypeEndorsement", "OpTypeEndorsementWithSlot"} ->
                (IF p.OperationTagsVersion < 2
                 THEN <<EmmyEndorsementWatermark>>
                 ELSE <<TenderbakeEndorsementWatermark>>) \o chain
          [] k = "OpTypePreendorsement" ->
                <<TenderbakePreendorsementWatermark>> \o chain
          [] OTHER -> <<OperationWatermark>>

\* WatermarkedBytes that appends the signature the way Bytes does
WatermarkedBytes_WithSignature(o) ==
    IF Len(o.Contents) = 0 \/ ~BlockHashIsValid(o.Branch) THEN <<>>
    ELSE LET p == ParamsOrDefault(o)
             buf == WatermarkPrefix(o, p) \o o.Branch
                        \o EncodeContents(o.Contents, p)
         IN  IF SignatureIsValid(o.Signature)
             THEN buf \o o.Signature.Data
             ELSE buf

\* Op.WatermarkedBytes
WatermarkedBytes(o) ==
    IF Len(o.Contents) = 0 \/ ~BlockHashIsValid(o.Branch) THEN <<>>
    ELSE LET p == ParamsOrDefault(o)
         IN  WatermarkPrefix(o, p) \o o.Branch
                 \o EncodeContents(o.Contents, p)

\* Op.Digest
OpDigest(o) == Digest(WatermarkedBytes(o))

\* MarshalJSON without the endorsement-with-slot rule
MarshalJSON_NoSlotRule(o) ==
    LET obj == [branch |-> o.Branch,
                contents |-> [k \in 1..Len(o.Contents) |->
                                 OperationMarshalJSON(o.Contents[k])]]
    IN  IF SignatureIsValid(o.Signature)
        THEN obj @@ [signature |-> o.Signature]
        ELSE obj

\* Op.MarshalJSON
MarshalJSON(o) ==
    LET sig == IF Len(o.Contents) > 0
                  /\ Kind(o.Contents[1]) = "OpTypeEndorsementWithSlot"
               THEN InvalidSignature
               ELSE o.Signature
        obj == [branch |-> o.Branch,
                contents |-> [k \in 1..Len(o.Contents) |->
                                 OperationMarshalJSON(o.Contents[k])]]
    IN  IF SignatureIsValid(sig) THEN obj @@ [signature |-> sig] ELSE obj

(***************************************************************************)
(* Fee calculation                                                         *)
(***************************************************************************)
minFeeFixedNanoTez == 100000

minFeeByteNanoTez == 1000

minFeeGasNanoTez == 100

\* CalculateMinFee: fixed part, size of the encoded operation (plus branch
\* and signature for the first operation of a batch) and gas, in mutez,
\* rounded up
CalculateMinFee(o, gas, withHeader, p) ==
    LET sz == Len(EncodeBuffer(o, p)) + (IF withHeader THEN 32 + 64 ELSE 0)
        fee == minFeeFixedNanoTez + sz * minFeeByteNanoTez
                  + gas * minFeeGasNanoTez
    IN  (fee + 999) \div 1000

\* the fee loop cut off after its first pass
FeeLoop_SinglePass(v, userFee, adj, first, p, lastFee, n) ==
    LET fee == max64(userFee, CalculateMinFee(v, adj.GasLimit, first, p))
        adj2 == [adj EXCEPT !.Fee = fee]
    IN  [v |-> OperationWithLimits(v, adj2), iters |-> n + 1]

\* the fee loop that takes the minimum fee and drops the user's fee
RECURSIVE FeeLoop_NoUserFee(_, _, _, _, _, _, _)
FeeLoop_NoUserFee(v, userFee, adj, first, p, lastFee, n) ==
    IF lastFee < adj.Fee
    THEN LET fee == CalculateMinFee(v, adj.GasLimit, first, p)
             adj2 == [adj EXCEPT !.Fee = fee]
         IN  FeeLoop_NoUserFee(OperationWithLimits(v, adj2), userFee, adj2,
                               first, p, adj.Fee, n + 1)
    ELSE [v |-> v, iters |-> n]

\* the inner loop of Op.WithLimits: for lastFee < adj.Fee { ... }
\* returns the operation and the number of iterations made
RECURSIVE FeeLoop(_, _, _, _, _, _, _)
FeeLoop(v, userFee, adj, first, p, lastFee, n) ==
    IF lastFee < adj.Fee
    THEN LET fee == max64(userFee,
                          CalculateMinFee(v, adj.GasLimit, first, p))
             adj2 == [adj EXCEPT !.Fee = fee]
         IN  FeeLoop(OperationWithLimits(v, adj2), userFee, adj2, first, p,
                     adj.Fee, n + 1)
    ELSE [v |-> v, iters |-> n]

\* the margin added to the storage limit also when that is zero
AdjustedLimits_MarginOnZero(lim, margin) ==
    [Fee |-> 0,
     GasLimit |-> lim.GasLimit + margin,
     StorageLimit |-> lim.StorageLimit + margin]

\* the limits with safety margins that Op.WithLimits applies
AdjustedLimits(lim, margin) ==
    [Fee |-> 0,
     GasLimit |-> lim.GasLimit + margin,
     StorageLimit |-> IF lim.StorageLimit > 0
                      THEN lim.StorageLimit + margin
                      ELSE lim.StorageLimit]

\* the body of the range loop of Op.WithLimits from 1-based index k on.
\* limits[k] beyond the end of limits is an index-out-of-range panic, a nil
\* params pointer panics inside CalculateMinFee
RECURSIVE WithLimitsFrom(_, _, _, _, _, _)
WithLimitsFrom(contents, limits, margin, p, k, iters) ==
    IF k > Len(contents)
    THEN [Contents |-> contents, panic |-> FALSE, iters |-> iters]
    ELSE IF Len(limits) < k - 1
    THEN WithLimitsFrom(contents, limits, margin, p, k + 1, iters)
    ELSE IF k > Len(limits)
    THEN [Contents |-> contents, panic |-> TRUE, iters |-> iters]
    ELSE LET v0 == OperationWithLimits(contents[k], limits[k])
         IN  IF p.nil
             THEN [Contents |-> [contents EXCEPT ![k] = v0],
                   panic |-> TRUE, iters |-> iters]
             ELSE LET r == FeeLoop(v0, limits[k].Fee,
                                   AdjustedLimits(limits[k], margin),
                                   k = 1, p, -1, 0)
                  IN  WithLimitsFrom([contents EXCEPT ![k] = r.v], limits,
                                     margin, p, k + 1, iters \o <<r.iters>>)

\* Op.WithLimits
OpWithLimits(o, limits, margin) ==
    WithLimitsFrom(o.Contents, limits, margin, o.Params, 1, <<>>)

\* the body of the range loop of Op.WithMinFee for one operation
MinFeeOperation(v, first, p) ==
    LET lim == OperationLimits(v)
    IN  OperationWithLimits(v,
            [Fee |-> max64(lim.Fee,
                           CalculateMinFee(v, lim.GasLimit, first, p)),
             GasLimit |-> lim.GasLimit,
             StorageLimit |-> lim.StorageLimit])

\* Op.WithMinFee where every operation pays for the header
OpWithMinFee_HeaderForAll(o) ==
    IF o.Params.nil /\ Len(o.Contents) > 0
    THEN [Contents |-> o.Contents, panic |-> TRUE]
    ELSE [Contents |-> [k \in 1..Len(o.Contents) |->
                           MinFeeOperation(o.Contents[k], TRUE, o.Params)],
          panic |-> FALSE]

\* Op.WithMinFee; a nil params pointer panics inside CalculateMinFee
OpWithMinFee(o) ==
    IF o.Params.nil /\ Len(o.Contents) > 0
    THEN [Contents |-> o.Contents, panic |-> TRUE]
    ELSE [Contents |-> [k \in 1..Len(o.Contents) |->
                           MinFeeOperation(o.Contents[k], k = 1, o.Params)],
          panic |-> FALSE]

(***************************************************************************)
(* State                                                                   *)
(*   op    the Op container                                                *)
(*   last  the most recent call on it and what the call returned           *)
(*   wl    position of a running Op.WithLimits call when its loops are     *)
(*         followed step by step                                           *)
(*   mon   an RPC monitor and the goroutines that call its methods         *)
(***************************************************************************)
\* a new monitor: both channels open, no error; the goroutines that will
\* call Send, Recv and Close or Err are not inside a call
NewMonitor ==
    [closed |-> FALSE, result |-> FALSE, err |-> "", panic |-> "",
     send |-> "idle", recv |-> "idle", close |-> <<"idle", "idle">>,
     done |-> FALSE, after |-> FALSE, called |-> {}]

NoCall ==
    [call |-> "", err |-> "", panic |-> FALSE, key |-> InvalidKey,
     out |-> <<>>, limits |-> <<>>, margin |-> 0, iters |-> <<>>]

Returned(name) == [NoCall EXCEPT !.call = name]

ZeroLimits == [Fee |-> 0, GasLimit |-> 0, StorageLimit |-> 0]

WlIdle ==
    [pc |-> "idle", k |-> 0, limits |-> <<>>, margin |-> 0, lastFee |-> 0,
     adj |-> ZeroLimits, iters |-> 0]

Init ==
    /\ op = NewOp
    /\ last = NoCall
    /\ wl = WlIdle
    /\ mon = NewMonitor

(***************************************************************************)
(* Inputs                                                                  *)
(***************************************************************************)
BranchInputs == {ZeroBlockHash, Branch1}

ParamsInputs == {NilParams, ParamsV(1), ParamsV(2)}

ChainIdInputs == {Mainnet}

\* a valid signature whose first byte is a known operation tag and a value
\* with too little data
SignatureA == [Type |-> "ed25519", Data |-> <<110>> \o Repeat(7, 63)]

SignatureShort == [Type |-> "ed25519", Data |-> <<5, 5, 5>>]

SignatureInputs == {SignatureA, SignatureShort}

DelegationOp(src, to) ==
    [NewOperation("Delegation") EXCEPT !.Source = src, !.Delegate = to,
                                       !.Counter = 1]

DrainDelegateOp ==
    [NewOperation("DrainDelegate") EXCEPT !.ConsensusKey = 1,
                                          !.Delegate = 2,
                                          !.Destination = 1]

ConsensusOp(t) == [NewOperation(t) EXCEPT !.Level = 258]

ContentInputs ==
    {ConsensusOp("Endorsement"), ConsensusOp("TenderbakeEndorsement"),
     ConsensusOp("TenderbakePreendorsement"),
     ConsensusOp("EndorsementWithSlot"),
     DelegationOp(1, 2)}

SignContentInputs ==
    {ConsensusOp("TenderbakeEndorsement"), DelegationOp(1, 2)}

FeeContentInputs == {DelegationOp(1, InvalidAddress), DrainDelegateOp}

LimitsValues ==
    {[Fee |-> 0, GasLimit |-> 10, StorageLimit |-> 0],
     [Fee |-> 500, GasLimit |-> 1000, StorageLimit |-> 300]}

MarginInputs == {0, 100}

RECURSIVE SeqsUpTo(_, _)
SeqsUpTo(S, n) ==
    IF n = 0 THEN {<<>>}
    ELSE LET shorter == SeqsUpTo(S, n - 1)
         IN  shorter \cup {Append(q, x) : q \in shorter, x \in S}

LimitsInputs == SeqsUpTo(LimitsValues, MaxLimits)

\* inputs of the loop-by-loop specification
StepLimitsInputs ==
    SeqsUpTo({ZeroLimits, [Fee |-> 2, GasLimit |-> 1, StorageLimit |-> 1]},
             MaxLimits)

StepMarginInputs == {1}

StepContentInputs == {DelegationOp(1, 2), DrainDelegateOp}

(***************************************************************************)
(* Builder calls                                                           *)
(***************************************************************************)
WithBranch(hash) ==
    /\ wl.pc = "idle"
    /\ op' = [op EXCEPT !.Branch = hash]
    /\ last' = Returned("builder")
    /\ UNCHANGED <<wl, mon>>

WithContents(x) ==
    /\ wl.pc = "idle"
    /\ Len(op.Contents) < MaxContents
    /\ op' = [op EXCEPT !.Contents = Append(op.Contents, x)]
    /\ last' = Returned("builder")
    /\ UNCHANGED <<wl, mon>>

WithContentsFront(x) ==
    /\ wl.pc = "idle"
    /\ Len(op.Contents) < MaxContents
    /\ op' = [op EXCEPT !.Contents = <<x>> \o op.Contents]
    /\ last' = Returned("builder")
    /\ UNCHANGED <<wl, mon>>

WithParams(p) ==
    /\ wl.pc = "idle"
    /\ op' = [op EXCEPT !.Params = p]
    /\ last' = Returned("builder")
    /\ UNCHANGED <<wl, mon>>

WithChainId(id) ==
    /\ wl.pc = "idle"
    /\ op' = [op EXCEPT !.ChainId = id]
    /\ last' = Returned("builder")
    /\ UNCHANGED <<wl, mon>>

WithSignature(sig) ==
    /\ wl.pc = "idle"
    /\ op' = [op EXCEPT !.Signature = sig]
    /\ last' = Returned("builder")
    /\ UNCHANGED <<wl, mon>>

(***************************************************************************)
(* Signing and serialization calls                                         *)
(***************************************************************************)
\* Sign that does not look at the branch
Sign_NoBranchCheck(key) ==
    /\ wl.pc = "idle"
    /\ IF Len(op.Contents) = 0
       THEN /\ last' = [Returned("Sign") EXCEPT
                            !.err = "tezos: empty operation contents",
                            !.key = key]
            /\ UNCHANGED <<op, mon>>
       ELSE IF KeySignFails(key)
       THEN /\ last' = [Returned("Sign") EXCEPT
                            !.err = "invalid key", !.key = key]
            /\ UNCHANGED <<op, mon>>
       ELSE /\ op' = [op EXCEPT !.Signature = KeySign(key, OpDigest(op))]
            /\ last' = [Returned("Sign") EXCEPT !.key = key]
    /\ UNCHANGED <<wl, mon>>

\* Op.Sign
Sign(key) ==
    /\ wl.pc = "idle"
    /\ IF ~BlockHashIsValid(op.Branch)
       THEN /\ last' = [Returned("Sign") EXCEPT
                            !.err = "tezos: missing branch", !.key = key]
            /\ UNCHANGED <<op, mon>>
       ELSE IF Len(op.Contents) = 0
       THEN /\ last' = [Returned("Sign") EXCEPT
                            !.err = "tezos: empty operation contents",
                            !.key = key]
            /\ UNCHANGED <<op, mon>>
       ELSE IF KeySignFails(key)
       THEN /\ last' = [Returned("Sign") EXCEPT
                            !.err = "invalid key", !.key = key]
            /\ UNCHANGED <<op, mon>>
       ELSE /\ op' = [op EXCEPT !.Signature = KeySign(key, OpDigest(op))]
            /\ last' = [Returned("Sign") EXCEPT !.key = key]
    /\ UNCHANGED <<wl, mon>>

CallBytes ==
    /\ wl.pc = "idle"
    /\ last' = [Returned("Bytes") EXCEPT !.out = Bytes(op)]
    /\ UNCHANGED <<op, wl, mon>>

CallWatermarkedBytes ==
    /\ wl.pc = "idle"
    /\ last' = [Returned("WatermarkedBytes") EXCEPT
                    !.out = WatermarkedBytes(op)]
    /\ UNCHANGED <<op, wl, mon>>

CallMarshalJSON ==
    /\ wl.pc = "idle"
    /\ last' = [Returned("MarshalJSON") EXCEPT !.out = MarshalJSON(op)]
    /\ UNCHANGED <<op, wl, mon>>

Next ==
    \/ \E hash \in BranchInputs : WithBranch(hash)
    \/ \E x \in ContentInputs : WithContents(x)
    \/ \E x \in ContentInputs : WithContentsFront(x)
    \/ \E p \in ParamsInputs : WithParams(p)
    \/ \E id \in ChainIdInputs : WithChainId(id)
    \/ \E sig \in SignatureInputs : WithSignature(sig)
    \/ CallBytes
    \/ CallWatermarkedBytes
    \/ CallMarshalJSON

Spec == Init /\ [][Next]_vars

\* building and signing
NextSign ==
    \/ \E hash \in BranchInputs : WithBranch(hash)
    \/ \E x \in SignContentInputs : WithContents(x)
    \/ \E id \in ChainIdInputs : WithChainId(id)
    \/ \E sig \in SignatureInputs : WithSignature(sig)
    \/ \E key \in Keys : Sign(key)

SpecSign == Init /\ [][NextSign]_vars

(***************************************************************************)
(* Op.WithLimits as one call, with CalculateMinFee as the fee function     *)
(***************************************************************************)
WithLimits(limits, margin) ==
    /\ wl.pc = "idle"
    /\ LET r == OpWithLimits(op, limits, margin)
       IN  /\ op' = [op EXCEPT !.Contents = r.Contents]
           /\ last' = [Returned("WithLimits") EXCEPT
                           !.panic = r.panic, !.limits = limits,
                           !.margin = margin, !.iters = r.iters]
    /\ UNCHANGED <<wl, mon>>

\* Op.WithMinFee as one call
WithMinFee ==
    /\ wl.pc = "idle"
    /\ LET r == OpWithMinFee(op)
       IN  /\ op' = [op EXCEPT !.Contents = r.Contents]
           /\ last' = [before |-> op.Contents]
                          @@ [Returned("WithMinFee") EXCEPT !.panic = r.panic]
    /\ UNCHANGED <<wl, mon>>

NextLimits ==
    \/ \E x \in FeeContentInputs : WithContents(x)
    \/ \E limits \in LimitsInputs, margin \in MarginInputs :
          WithLimits(limits, margin)

SpecLimits == Init /\ [][NextLimits]_vars

\* operations with and without limits already set, and a fee-less one
MinFeeContentInputs ==
    {DelegationOp(1, InvalidAddress),
     [DelegationOp(1, 2) EXCEPT !.GasLimit = 1000],
     [DelegationOp(1, 2) EXCEPT !.Fee = 500, !.GasLimit = 1000,
                                !.StorageLimit = 300],
     DrainDelegateOp}

NextMinFee ==
    \/ \E x \in MinFeeContentInputs : WithContents(x)
    \/ \E x \in MinFeeContentInputs : WithContentsFront(x)
    \/ WithMinFee

SpecMinFee == Init /\ [][NextMinFee]_vars

(***************************************************************************)
(* Op.WithLimits followed loop by loop.  The minimum fee is computed from  *)
(* the bytes that the operation's EncodeBuffer writes, and Operation is an *)
(* interface: here each call of the fee function may return any fee.       *)
(***************************************************************************)
\* entry of WithLimits
WithLimitsBegin(limits, margin) ==
    /\ wl.pc = "idle"
    /\ Len(op.Contents) > 0
    /\ wl' = [WlIdle EXCEPT !.pc = "range", !.k = 1, !.limits = limits,
                            !.margin = margin]
    /\ last' = Returned("WithLimits:running")
    /\ UNCHANGED <<op, mon>>

\* for i, v := range o.Contents: end of the list, return o
WithLimitsReturn ==
    /\ wl.pc = "range"
    /\ wl.k > Len(op.Contents)
    /\ wl' = WlIdle
    /\ last' = [Returned("WithLimits") EXCEPT
                    !.limits = wl.limits, !.margin = wl.margin]
    /\ UNCHANGED <<op, mon>>

\* limits[i] read beyond the end of limits
WithLimitsPanic ==
    /\ wl.pc = "range"
    /\ wl.k <= Len(op.Contents)
    /\ ~(Len(wl.limits) < wl.k - 1)
    /\ wl.k > Len(wl.limits)
    /\ wl' = WlIdle
    /\ last' = [Returned("WithLimits") EXCEPT
                    !.panic = TRUE, !.limits = wl.limits,
                    !.margin = wl.margin]
    /\ UNCHANGED <<op, mon>>

\* v.WithLimits(limits[i]), adj, lastFee = -1
WithLimitsApply ==
    /\ wl.pc = "range"
    /\ wl.k <= Len(op.Contents)
    /\ wl.k <= Len(wl.limits)
    /\ op' = [op EXCEPT !.Contents[wl.k] =
                  OperationWithLimits(@, wl.limits[wl.k])]
    /\ wl' = [wl EXCEPT !.pc = "fee", !.lastFee = -1, !.iters = 0,
                        !.adj = AdjustedLimits(wl.limits[wl.k], wl.margin)]
    /\ UNCHANGED <<last, mon>>

\* one pass of the body of: for lastFee < adj.Fee
WithLimitsFeeIteration(minFee) ==
    /\ wl.pc = "fee"
    /\ wl.lastFee < wl.adj.Fee
    /\ LET adj == [wl.adj EXCEPT
                       !.Fee = max64(wl.limits[wl.k].Fee, minFee)]
       IN  /\ wl' = [wl EXCEPT !.lastFee = wl.adj.Fee, !.adj = adj,
                               !.iters = @ + 1]
           /\ op' = [op EXCEPT !.Contents[wl.k] =
                         OperationWithLimits(@, adj)]
    /\ UNCHANGED <<last, mon>>

\* the loop condition fails, on to the next operation
WithLimitsFeeConverged ==
    /\ wl.pc = "fee"
    /\ ~(wl.lastFee < wl.adj.Fee)
    /\ wl' = [wl EXCEPT !.pc = "range", !.k = @ + 1]
    /\ UNCHANGED <<op, last, mon>>

NextAnyMinFee ==
    \/ \E x \in StepContentInputs : WithContents(x)
    \/ \E limits \in StepLimitsInputs, margin \in StepMarginInputs :
          WithLimitsBegin(limits, margin)
    \/ WithLimitsReturn
    \/ WithLimitsPanic
    \/ WithLimitsApply
    \/ \E minFee \in 0..MaxOracleFee : WithLimitsFeeIteration(minFee)
    \/ WithLimitsFeeConverged

SpecAnyMinFee == Init /\ [][NextAnyMinFee]_vars

(***************************************************************************)
(* Properties of signing                                                   *)
(***************************************************************************)
Serializable(o) == Len(o.Contents) > 0 /\ BlockHashIsValid(o.Branch)

\* C3: Sign on an Op that already holds a valid signature (and that has a
\* valid branch and contents) returns no error and leaves Signature as it
\* was, for any key.
C3_SignIsNoopWhenSigned ==
    [][(last'.call = "Sign" /\ Serializable(op)
            /\ SignatureIsValid(op.Signature))
          => (last'.err = "" /\ op'.Signature = op.Signature)]_vars

OtherSignatures ==
    {SignatureA, InvalidSignature, KeySign(1, Repeat(9, 32))}

C5_DigestIgnoresSignature ==
    \A sig \in OtherSignatures :
        LET o2 == [op EXCEPT !.Signature = sig]
        IN  /\ WatermarkedBytes(o2) = WatermarkedBytes(op)
            /\ OpDigest(o2) = OpDigest(op)

C5_Witness ==
    /\ Serializable(op)
    /\ SignatureIsValid(op.Signature)
    /\ Len(OpDigest(op)) = 32

(***************************************************************************)
(* Properties of the serialized forms                                      *)
(***************************************************************************)
FirstKind == Kind(op.Contents[1])

LegacyEra == ParamsOrDefault(op).OperationTagsVersion < 2

ChainIdSet == op.ChainId # NilChainId

EncodedContents == EncodeContents(op.Contents, ParamsOrDefault(op))

\* the watermark byte the first operation's kind and the era call for
ExpectedWatermark ==
    CASE FirstKind \in {"OpTypeEndorsement", "OpTypeEndorsementWithSlot"} ->
            IF LegacyEra THEN 2 ELSE 19
      [] FirstKind = "OpTypePreendorsement" -> 18
      [] OTHER -> 3

\* C6: the first byte of WatermarkedBytes() is the watermark chosen from the
\* kind of Contents[0] and the era alone, and for a current-era attestation
\* with a chain id the output is 0x13, chain id, branch, contents.
C6_WatermarkSelection ==
    Serializable(op) =>
        LET out == WatermarkedBytes(op)
        IN  /\ out[1] = ExpectedWatermark
            /\ (FirstKind = "OpTypeEndorsement" /\ ~LegacyEra /\ ChainIdSet)
                   => /\ Len(op.ChainId) = 4
                      /\ out = <<19>> \o op.ChainId \o op.Branch
                                  \o EncodedContents

C6_Witness ==
    /\ Serializable(op)
    /\ Len(op.Contents) = 2
    /\ op.Contents[1].type = "TenderbakeEndorsement"
    /\ Kind(op.Contents[2]) = "OpTypePreendorsement"
    /\ ~LegacyEra
    /\ ChainIdSet
    /\ last.call = "WatermarkedBytes"
    /\ last.out[1] = 19

\* C7 as stated: the chain id is written only for a current-era attestation
\* or pre-attestation with a chain id set; every other first kind and every
\* legacy-era consensus operation gives watermark, branch, contents.
C7_ChainIdOnlyInCurrentEra ==
    Serializable(op) =>
        LET out == WatermarkedBytes(op)
            consensus == FirstKind \in {"OpTypeEndorsement",
                                        "OpTypeEndorsementWithSlot",
                                        "OpTypePreendorsement"}
        IN  IF consensus /\ ~LegacyEra /\ ChainIdSet
            THEN out = <<out[1]>> \o op.ChainId \o op.Branch
                          \o EncodedContents
            ELSE out = <<out[1]>> \o op.Branch \o EncodedContents

\* C7 amended: the chain id is written exactly when Contents[0] is of an
\* endorsement, endorsement-with-slot or pre-endorsement kind and a chain id
\* is set, in the legacy era as in the current one; every other first kind
\* gives watermark, branch, contents even after WithChainId.
C7_ChainIdForConsensusKinds ==
    Serializable(op) =>
        LET out == WatermarkedBytes(op)
            consensus == FirstKind \in {"OpTypeEndorsement",
                                        "OpTypeEndorsementWithSlot",
                                        "OpTypePreendorsement"}
        IN  IF consensus /\ ChainIdSet
            THEN out = <<out[1]>> \o op.ChainId \o op.Branch
                          \o EncodedContents
            ELSE out = <<out[1]>> \o op.Branch \o EncodedContents

C7_Witness ==
    /\ Serializable(op)
    /\ ChainIdSet
    /\ LegacyEra
    /\ op.Contents[1].type = "Endorsement"
    /\ last.call = "WatermarkedBytes"
    /\ SubSeq(last.out, 2, 5) = op.ChainId

\* offset of the k-th operation's encoding behind the branch
RECURSIVE EncodedLenBefore(_)
EncodedLenBefore(k) ==
    IF k <= 1 THEN 0
    ELSE EncodedLenBefore(k - 1)
            + Len(EncodeBuffer(op.Contents[k - 1], ParamsOrDefault(op)))

\* C8: Bytes() of a serializable Op is the 32 branch bytes, then each
\* operation's encoding in list order, then the raw signature data exactly
\* when the signature is valid and Contents[0] is not endorsement-with-slot.
C8_BytesLayout ==
    Serializable(op) =>
        LET out == Bytes(op)
            n == Len(op.Contents)
            body == 32 + EncodedLenBefore(n + 1)
            signed == SignatureIsValid(op.Signature)
                         /\ FirstKind # "OpTypeEndorsementWithSlot"
        IN  /\ Len(op.Branch) = 32
            /\ SubSeq(out, 1, 32) = op.Branch
            /\ \A k \in 1..n :
                  LET e == EncodeBuffer(op.Contents[k], ParamsOrDefault(op))
                      off == 32 + EncodedLenBefore(k)
                  IN  SubSeq(out, off + 1, off + Len(e)) = e
            /\ IF signed
               THEN /\ Len(out) = body + 64
                    /\ SubSeq(out, body + 1, body + 64) = op.Signature.Data
               ELSE Len(out) = body

C8_Witness ==
    /\ Serializable(op)
    /\ Len(op.Contents) = 2
    /\ op.Contents[1] # op.Contents[2]
    /\ SignatureIsValid(op.Signature)
    /\ FirstKind # "OpTypeEndorsementWithSlot"
    /\ last.call = "Bytes"
    /\ last.out = Bytes(op)

\* C9: MarshalJSON() has a "signature" field if and only if the signature is
\* valid and Contents[0] is not of the endorsement-with-slot kind.
C9_JSONSignatureField ==
    ("signature" \in DOMAIN MarshalJSON(op))
        <=> /\ SignatureIsValid(op.Signature)
            /\ ~(Len(op.Contents) > 0
                    /\ FirstKind = "OpTypeEndorsementWithSlot")

C9_Witness ==
    /\ Len(op.Contents) > 0
    /\ FirstKind = "OpTypeEndorsementWithSlot"
    /\ SignatureIsValid(op.Signature)
    /\ last.call = "MarshalJSON"
    /\ "signature" \notin DOMAIN last.out

\* C10: Bytes() and WatermarkedBytes() return nil exactly when the contents
\* are empty or the branch is invalid, a non-empty result otherwise, and
\* leave the Op as it was.
C10_NilExactlyWhenNotSerializable ==
    [][last'.call \in {"Bytes", "WatermarkedBytes"}
          => /\ op' = op
             /\ (last'.out = <<>>) <=> ~Serializable(op)]_vars

C10_Witness ==
    /\ last.call = "WatermarkedBytes"
    /\ last.out = <<>>
    /\ Len(op.Contents) > 0
    /\ ~BlockHashIsValid(op.Branch)

(***************************************************************************)
(* Properties of the fee loop                                              *)
(***************************************************************************)
\* C1: the fee loop of WithLimits has a hard iteration ceiling whatever the
\* fee function returns: it never makes more than FeeLoopCeiling passes for
\* one operation.
C1_FeeLoopHasCeiling == wl.iters <= FeeLoopCeiling

\* C2: after WithLimits(limits, margin) has returned, every manager
\* operation's fee is at least CalculateMinFee of the operation as it is
\* now encoded, with the adjusted gas and the is-first flag, and WithLimits
\* with the same arguments changes nothing.
C2_FeeCoversMinFeeAndIsFixedPoint ==
    (last.call = "WithLimits" /\ ~last.panic) =>
        /\ \A k \in 1..Len(op.Contents) :
              IsManager(op.Contents[k]) =>
                  op.Contents[k].Fee
                      >= CalculateMinFee(op.Contents[k],
                             last.limits[k].GasLimit + last.margin,
                             k = 1, op.Params)
        /\ LET again == OpWithLimits(op, last.limits, last.margin)
           IN  ~again.panic /\ again.Contents = op.Contents

C2_Witness ==
    /\ last.call = "WithLimits"
    /\ ~last.panic
    /\ Len(op.Contents) = 2
    /\ IsManager(op.Contents[2])
    /\ last.iters[2] >= 3
    /\ op.Contents[2].Fee > last.limits[2].Fee

(***************************************************************************)
(* Binary decoding: the primitive readers                                  *)
(* A reader returns [err, val, rest]: the error text ("" for none), the    *)
(* value read and the bytes left in the buffer.                            *)
(***************************************************************************)
\* bytes.Buffer.Next(n): the next n bytes, fewer when the buffer is shorter
BufNext(b, n) == SubSeq(b, 1, IF n < Len(b) THEN n ELSE Len(b))

\* what is left of the buffer after Next(n)
BufSkip(b, n) == SubSeq(b, (IF n < Len(b) THEN n ELSE Len(b)) + 1, Len(b))

\* mavryk.N.DecodeBuffer: 7 bit groups, low group first, until a byte
\* without the 0x80 bit; a buffer that ends before that is an error
RECURSIVE DecodeN(_)
DecodeN(b) ==
    IF Len(b) = 0 THEN [err |-> "short buffer", val |-> 0, rest |-> <<>>]
    ELSE IF b[1] < 128 THEN [err |-> "", val |-> b[1], rest |-> Tail(b)]
    ELSE LET r == DecodeN(Tail(b))
         IN  IF r.err # "" THEN r
             ELSE [err |-> "", val |-> (b[1] - 128) + 128 * r.val,
                   rest |-> r.rest]

\* the address with hash h: the id whose 20 bytes are h, or for any other
\* hash an id beyond the byte range
AddressFromHash(h) ==
    IF h = Repeat(h[1], 20) THEN h[1]
    ELSE 256 + WeightedSum(h, 1, 20)

\* Address.Decode: 21 bytes are type byte and hash, 22 bytes a padded
\* contract id (0 and a 21 byte implicit address, or another contract type)
AddressDecode(b) ==
    IF Len(b) = 21
    THEN IF b[1] > 3
         THEN [err |-> "invalid binary address type",
               val |-> InvalidAddress]
         ELSE [err |-> "", val |-> AddressFromHash(SubSeq(b, 2, 21))]
    ELSE IF Len(b) = 22
    THEN IF b[1] = 0
         THEN IF b[2] > 3
              THEN [err |-> "invalid binary address type",
                    val |-> InvalidAddress]
              ELSE [err |-> "", val |-> AddressFromHash(SubSeq(b, 3, 22))]
         ELSE IF b[1] > 4
         THEN [err |-> "invalid binary address type",
               val |-> InvalidAddress]
         ELSE [err |-> "",
               val |-> 512 * b[1] + AddressFromHash(SubSeq(b, 2, 21))]
    ELSE [err |-> "invalid binary address length", val |-> InvalidAddress]

\* readBool: one byte, 0xff is true and 0x00 is false
readBool(b) ==
    IF Len(b) # 1 THEN [err |-> "short buffer", val |-> FALSE]
    ELSE IF b[1] = 255 THEN [err |-> "", val |-> TRUE]
    ELSE IF b[1] = 0 THEN [err |-> "", val |-> FALSE]
    ELSE [err |-> "invalid bool", val |-> FALSE]

\* HexBytes.ReadBytes(buf, size): exactly size bytes
ReadBytes(b, size) ==
    IF Len(b) < size
    THEN [err |-> "short buffer", val |-> <<>>, rest |-> <<>>]
    ELSE [err |-> "", val |-> BufNext(b, size), rest |-> BufSkip(b, size)]

\* OpType.MinSizeVersion: the least encoded size of a kind, tag included
MinSize(k) ==
    CASE k = "OpTypeEndorsement" -> 43
      [] k = "OpTypePreendorsement" -> 43
      [] k = "OpTypeEndorsementWithSlot" -> 108
      [] k = "OpTypeDelegation" -> 27
      [] k = "OpTypeDrainDelegate" -> 64
      [] k = "OpTypeVdfRevelation" -> 201
      [] k = "OpTypeTransaction" -> 50
      [] k = "OpTypeSetDepositsLimit" -> 27
      [] k = "OpTypeIncreasePaidStorage" -> 49
      [] k = "OpTypeBallot" -> 59
      [] k = "OpTypeProposals" -> 30
      [] k = "OpTypeActivateAccount" -> 41
      [] k = "OpTypeDalAttestation" -> 27
      [] k = "OpTypeSmartRollupOriginate" -> 39
      [] k = "OpTypeSmartRollupExecuteOutboxMessage" -> 82
      [] OTHER -> 0

\* ensureTagAndSize: the leading byte is the kind's tag in this version and
\* the buffer holds at least the kind's least size; consumes the tag
ensureTagAndSize(b, k, ver) ==
    IF Len(b) = 0 THEN [err |-> "EOF", rest |-> b]
    ELSE IF b[1] # TagVersion(k, ver)
    THEN [err |-> "invalid tag", rest |-> Tail(b)]
    ELSE IF Len(b) < MinSize(k) THEN [err |-> "short buffer", rest |-> b]
    ELSE [err |-> "", rest |-> Tail(b)]

\* mavryk.ParseOpTag: the kind a leading byte stands for
ParseOpTag(tag) ==
    CASE tag = 0 -> "OpTypeEndorsement"
      [] tag = 4 -> "OpTypeActivateAccount"
      [] tag = 5 -> "OpTypeProposals"
      [] tag = 6 -> "OpTypeBallot"
      [] tag = 22 -> "OpTypeDalAttestation"
      [] tag = 108 -> "OpTypeTransaction"
      [] tag = 112 -> "OpTypeSetDepositsLimit"
      [] tag = 113 -> "OpTypeIncreasePaidStorage"
      [] tag = 200 -> "OpTypeSmartRollupOriginate"
      [] tag = 206 -> "OpTypeSmartRollupExecuteOutboxMessage"
      [] tag = 8 -> "OpTypeVdfRevelation"
      [] tag = 9 -> "OpTypeDrainDelegate"
      [] tag = 10 -> "OpTypeEndorsementWithSlot"
      [] tag = 20 -> "OpTypePreendorsement"
      [] tag = 21 -> "OpTypeEndorsement"
      [] tag = 110 -> "OpTypeDelegation"
      [] OTHER -> "OpTypeInvalid"

\* readInt32 and friends: big-endian unsigned value of the bytes
RECURSIVE ReadBigEndian(_)
ReadBigEndian(b) ==
    IF Len(b) = 0 THEN 0
    ELSE 256 * ReadBigEndian(SubSeq(b, 1, Len(b) - 1)) + b[Len(b)]

(***************************************************************************)
(* Binary decoding: the variants.  A variant decoder returns               *)
(* [err, op, rest].                                                        *)
(***************************************************************************)
DecodeFailed(e) ==
    [panic |-> FALSE, err |-> e, op |-> ZeroOperation, rest |-> <<>>]

Decoded(o, rest) == [panic |-> FALSE, err |-> "", op |-> o, rest |-> rest]

\* a decoder that panics
DecodePanicked ==
    [panic |-> TRUE, err |-> "", op |-> ZeroOperation, rest |-> <<>>]

\* Manager.DecodeBuffer: source, fee, counter, gas limit, storage limit
ManagerDecodeBuffer(b, o) ==
    LET src == AddressDecode(BufNext(b, 21))
        fee == DecodeN(BufSkip(b, 21))
        ctr == DecodeN(fee.rest)
        gas == DecodeN(ctr.rest)
        sto == DecodeN(gas.rest)
    IN  IF src.err # "" THEN DecodeFailed(src.err)
        ELSE IF fee.err # "" THEN DecodeFailed(fee.err)
        ELSE IF ctr.err # "" THEN DecodeFailed(ctr.err)
        ELSE IF gas.err # "" THEN DecodeFailed(gas.err)
        ELSE IF sto.err # "" THEN DecodeFailed(sto.err)
        ELSE Decoded([o EXCEPT !.Source = src.val, !.Fee = fee.val,
                               !.Counter = ctr.val, !.GasLimit = gas.val,
                               !.StorageLimit = sto.val], sto.rest)

\* Delegation.DecodeBuffer that takes the delegate without the flag byte
DelegationDecodeBuffer_NoFlag(b, p) ==
    LET t == ensureTagAndSize(b, "OpTypeDelegation", p.OperationTagsVersion)
        m == ManagerDecodeBuffer(t.rest, NewOperation("Delegation"))
        d == AddressDecode(BufNext(m.rest, 21))
    IN  IF t.err # "" THEN DecodeFailed(t.err)
        ELSE IF m.err # "" THEN DecodeFailed(m.err)
        ELSE IF d.err # "" THEN DecodeFailed(d.err)
        ELSE Decoded([m.op EXCEPT !.Delegate = d.val], BufSkip(m.rest, 21))

\* Delegation.DecodeBuffer
DelegationDecodeBuffer(b, p) ==
    LET t == ensureTagAndSize(b, "OpTypeDelegation", p.OperationTagsVersion)
        m == ManagerDecodeBuffer(t.rest, NewOperation("Delegation"))
        ok == readBool(BufNext(m.rest, 1))
        r1 == BufSkip(m.rest, 1)
        d == AddressDecode(BufNext(r1, 21))
    IN  IF t.err # "" THEN DecodeFailed(t.err)
        ELSE IF m.err # "" THEN DecodeFailed(m.err)
        ELSE IF ok.err # "" THEN DecodeFailed(ok.err)
        ELSE IF ~ok.val THEN Decoded(m.op, r1)
        ELSE IF d.err # "" THEN DecodeFailed(d.err)
        ELSE Decoded([m.op EXCEPT !.Delegate = d.val], BufSkip(r1, 21))

\* DrainDelegate.DecodeBuffer
DrainDelegateDecodeBuffer(b, p) ==
    LET t == ensureTagAndSize(b, "OpTypeDrainDelegate",
                              p.OperationTagsVersion)
        ck == AddressDecode(BufNext(t.rest, 21))
        r1 == BufSkip(t.rest, 21)
        dl == AddressDecode(BufNext(r1, 21))
        r2 == BufSkip(r1, 21)
        ds == AddressDecode(BufNext(r2, 21))
    IN  IF t.err # "" THEN DecodeFailed(t.err)
        ELSE IF ck.err # "" THEN DecodeFailed(ck.err)
        ELSE IF dl.err # "" THEN DecodeFailed(dl.err)
        ELSE IF ds.err # "" THEN DecodeFailed(ds.err)
        ELSE Decoded([NewOperation("DrainDelegate") EXCEPT
                          !.ConsensusKey = ck.val, !.Delegate = dl.val,
                          !.Destination = ds.val], BufSkip(r2, 21))

\* the length of a VDF solution
VdfSolutionLen == 200

\* VdfRevelation.DecodeBuffer
VdfRevelationDecodeBuffer(b, p) ==
    LET t == ensureTagAndSize(b, "OpTypeVdfRevelation",
                              p.OperationTagsVersion)
        s == ReadBytes(t.rest, VdfSolutionLen)
    IN  IF t.err # "" THEN DecodeFailed(t.err)
        ELSE IF s.err # "" THEN DecodeFailed(s.err)
        ELSE Decoded([NewOperation("VdfRevelation") EXCEPT
                          !.Solution = s.val], s.rest)

\* TenderbakeEndorsement / TenderbakePreendorsement DecodeBuffer: slot,
\* level, round, block payload hash
TenderbakeDecodeBuffer(b, type, p) ==
    LET t == ensureTagAndSize(b, Kind(NewOperation(type)),
                              p.OperationTagsVersion)
    IN  IF t.err # "" THEN DecodeFailed(t.err)
        ELSE Decoded([NewOperation(type) EXCEPT
                          !.Level = ReadBigEndian(SubSeq(t.rest, 3, 6))],
                     BufSkip(t.rest, 42))

\* Endorsement.DecodeBuffer (legacy): level
EndorsementDecodeBuffer(b, p) ==
    LET t == ensureTagAndSize(b, "OpTypeEndorsement",
                              p.OperationTagsVersion)
    IN  IF t.err # "" THEN DecodeFailed(t.err)
        ELSE IF Len(t.rest) < 4 THEN DecodeFailed("short buffer")
        ELSE Decoded([NewOperation("Endorsement") EXCEPT
                          !.Level = ReadBigEndian(BufNext(t.rest, 4))],
                     BufSkip(t.rest, 4))

\* EndorsementWithSlot.DecodeBuffer: length, inlined endorsement, slot
EndorsementWithSlotDecodeBuffer(b, p) ==
    LET t == ensureTagAndSize(b, "OpTypeEndorsementWithSlot",
                              p.OperationTagsVersion)
    IN  IF t.err # "" THEN DecodeFailed(t.err)
        ELSE Decoded([NewOperation("EndorsementWithSlot") EXCEPT
                          !.Level = ReadBigEndian(SubSeq(t.rest, 38, 41))],
                     BufSkip(t.rest, 107))

\* mavryk.Z.DecodeBuffer (values >= 0)
DecodeZ(b) ==
    IF Len(b) = 0 THEN [err |-> "short buffer", val |-> 0, rest |-> <<>>]
    ELSE IF b[1] < 128 THEN [err |-> "", val |-> b[1] % 64, rest |-> Tail(b)]
    ELSE LET r == DecodeN(Tail(b))
         IN  IF r.err # "" THEN r
             ELSE [err |-> "", val |-> (b[1] % 64) + 64 * r.val,
                   rest |-> r.rest]

\* readInt32: 4 bytes, big-endian, signed
readInt32(b) ==
    IF Len(b) # 4 THEN [err |-> "short buffer", val |-> 0]
    ELSE [err |-> "",
          val |-> IF b[1] >= 128
                  THEN ReadBigEndian(<<b[1] - 128, b[2], b[3], b[4]>>)
                           - 2147483647 - 1
                  ELSE ReadBigEndian(b)]

\* a 32 byte hash read back: its id, for other bytes an id beyond the bytes
HashUnmarshalBinary(b) ==
    IF Len(b) # 32 THEN [err |-> "invalid hash length", val |-> 0]
    ELSE [err |-> "",
          val |-> IF b = Repeat(b[1], 32) THEN b[1]
                  ELSE 256 + WeightedSum(b, 1, 32)]

\* readBytesWithLen: 4 byte length and that many bytes
readBytesWithLen(b) ==
    LET l == readInt32(BufNext(b, 4))
        r == BufSkip(b, 4)
    IN  IF l.err # "" THEN [err |-> l.err, val |-> <<>>, rest |-> <<>>]
        ELSE IF l.val < 0 \/ Len(r) < l.val
        THEN [err |-> "short buffer", val |-> <<>>, rest |-> <<>>]
        ELSE [err |-> "", val |-> BufNext(r, l.val),
              rest |-> BufSkip(r, l.val)]

\* Transaction.DecodeBuffer
TransactionDecodeBuffer(b, p) ==
    LET t == ensureTagAndSize(b, "OpTypeTransaction",
                              p.OperationTagsVersion)
        m == ManagerDecodeBuffer(t.rest, NewOperation("Transaction"))
        a == DecodeN(m.rest)
        d == AddressDecode(BufNext(a.rest, 22))
        r1 == BufSkip(a.rest, 22)
        ok == readBool(BufNext(r1, 1))
        r2 == BufSkip(r1, 1)
        o == [m.op EXCEPT !.Amount = a.val, !.Destination = d.val]
        prm == readBytesWithLen(r2)
    IN  IF t.err # "" THEN DecodeFailed(t.err)
        ELSE IF m.err # "" THEN DecodeFailed(m.err)
        ELSE IF a.err # "" THEN DecodeFailed(a.err)
        ELSE IF d.err # "" THEN DecodeFailed(d.err)
        ELSE IF ok.err # "" THEN DecodeFailed(ok.err)
        ELSE IF ~ok.val THEN Decoded(o, r2)
        ELSE IF prm.err # "" THEN DecodeFailed(prm.err)
        ELSE Decoded([o EXCEPT !.HasParameters = TRUE,
                               !.Parameters = prm.val], prm.rest)

\* SetDepositsLimit.DecodeBuffer
SetDepositsLimitDecodeBuffer(b, p) ==
    LET t == ensureTagAndSize(b, "OpTypeSetDepositsLimit",
                              p.OperationTagsVersion)
        m == ManagerDecodeBuffer(t.rest, NewOperation("SetDepositsLimit"))
        ok == readBool(BufNext(m.rest, 1))
        r1 == BufSkip(m.rest, 1)
        l == DecodeN(r1)
    IN  IF t.err # "" THEN DecodeFailed(t.err)
        ELSE IF m.err # "" THEN DecodeFailed(m.err)
        ELSE IF ok.err # "" THEN DecodeFailed(ok.err)
        ELSE IF ~ok.val THEN Decoded(m.op, r1)
        ELSE IF l.err # "" THEN DecodeFailed(l.err)
        ELSE Decoded([m.op EXCEPT !.HasLimit = TRUE, !.Limit = l.val],
                     l.rest)

\* IncreasePaidStorage.DecodeBuffer
IncreasePaidStorageDecodeBuffer(b, p) ==
    LET t == ensureTagAndSize(b, "OpTypeIncreasePaidStorage",
                              p.OperationTagsVersion)
        m == ManagerDecodeBuffer(t.rest,
                                 NewOperation("IncreasePaidStorage"))
        a == DecodeZ(m.rest)
        d == AddressDecode(BufNext(a.rest, 22))
    IN  IF t.err # "" THEN DecodeFailed(t.err)
        ELSE IF m.err # "" THEN DecodeFailed(m.err)
        ELSE IF a.err # "" THEN DecodeFailed(a.err)
        ELSE IF d.err # "" THEN DecodeFailed(d.err)
        ELSE Decoded([m.op EXCEPT !.Amount = a.val, !.Destination = d.val],
                     BufSkip(a.rest, 22))

\* Ballot.DecodeBuffer; BallotVote.UnmarshalBinary takes the tags 0, 1, 2
BallotDecodeBuffer(b, p) ==
    LET t == ensureTagAndSize(b, "OpTypeBallot", p.OperationTagsVersion)
        src == AddressDecode(BufNext(t.rest, 21))
        r1 == BufSkip(t.rest, 21)
        per == readInt32(BufNext(r1, 4))
        r2 == BufSkip(r1, 4)
        prop == HashUnmarshalBinary(BufNext(r2, 32))
        r3 == BufSkip(r2, 32)
        vote == BufNext(r3, 1)
    IN  IF t.err # "" THEN DecodeFailed(t.err)
        ELSE IF src.err # "" THEN DecodeFailed(src.err)
        ELSE IF per.err # "" THEN DecodeFailed(per.err)
        ELSE IF prop.err # "" THEN DecodeFailed(prop.err)
        ELSE IF Len(vote) # 1 THEN DecodeFailed("short buffer")
        ELSE IF vote[1] > 2 THEN DecodeFailed("invalid ballot")
        ELSE Decoded([NewOperation("Ballot") EXCEPT
                          !.Source = src.val, !.Period = per.val,
                          !.Proposal = prop.val, !.Ballot = vote[1]],
                     BufSkip(r3, 1))

\* the loop of Proposals.DecodeBuffer over the n hashes still to read
RECURSIVE ReadProposals(_, _, _)
ReadProposals(b, n, acc) ==
    IF n = 0 THEN [err |-> "", val |-> acc, rest |-> b]
    ELSE LET h == HashUnmarshalBinary(BufNext(b, 32))
         IN  IF h.err # "" THEN [err |-> h.err, val |-> acc, rest |-> <<>>]
             ELSE ReadProposals(BufSkip(b, 32), n - 1, Append(acc, h.val))

\* Proposals.DecodeBuffer; make() with a negative length panics
ProposalsDecodeBuffer(b, p) ==
    LET t == ensureTagAndSize(b, "OpTypeProposals", p.OperationTagsVersion)
        src == AddressDecode(BufNext(t.rest, 21))
        r1 == BufSkip(t.rest, 21)
        per == readInt32(BufNext(r1, 4))
        r2 == BufSkip(r1, 4)
        l == readInt32(BufNext(r2, 4))
        r3 == BufSkip(r2, 4)
        ps == ReadProposals(r3, l.val \div 32, <<>>)
    IN  IF t.err # "" THEN DecodeFailed(t.err)
        ELSE IF src.err # "" THEN DecodeFailed(src.err)
        ELSE IF per.err # "" THEN DecodeFailed(per.err)
        ELSE IF l.err # "" THEN DecodeFailed(l.err)
        ELSE IF l.val <= -32 THEN DecodePanicked
        ELSE IF l.val < 0
        THEN Decoded([NewOperation("Proposals") EXCEPT
                          !.Source = src.val, !.Period = per.val], r3)
        ELSE IF ps.err # "" THEN DecodeFailed(ps.err)
        ELSE Decoded([NewOperation("Proposals") EXCEPT
                          !.Source = src.val, !.Period = per.val,
                          !.Proposals = ps.val], ps.rest)

\* ActivateAccount.DecodeBuffer: an Ed25519 address from 20 bytes, secret
ActivateAccountDecodeBuffer(b, p) ==
    LET t == ensureTagAndSize(b, "OpTypeActivateAccount",
                              p.OperationTagsVersion)
        pkh == AddressFromHash(BufNext(t.rest, 20))
        s == ReadBytes(BufSkip(t.rest, 20), 20)
    IN  IF t.err # "" THEN DecodeFailed(t.err)
        ELSE IF ~AddressIsValid(pkh) THEN DecodeFailed("invalid address")
        ELSE IF s.err # "" THEN DecodeFailed(s.err)
        ELSE Decoded([NewOperation("ActivateAccount") EXCEPT
                          !.PublicKeyHash = pkh, !.Secret = s.val], s.rest)

\* DalAttestation.DecodeBuffer
DalAttestationDecodeBuffer(b, p) ==
    LET t == ensureTagAndSize(b, "OpTypeDalAttestation",
                              p.OperationTagsVersion)
        a == AddressDecode(BufNext(t.rest, 21))
        z == DecodeZ(BufSkip(t.rest, 21))
        lv == readInt32(BufNext(z.rest, 4))
    IN  IF t.err # "" THEN DecodeFailed(t.err)
        ELSE IF a.err # "" THEN DecodeFailed(a.err)
        ELSE IF z.err # "" THEN DecodeFailed(z.err)
        ELSE IF lv.err # "" THEN DecodeFailed(lv.err)
        ELSE Decoded([NewOperation("DalAttestation") EXCEPT
                          !.Attestor = a.val, !.Attestation = z.val,
                          !.Level = lv.val], BufSkip(z.rest, 4))

\* SmartRollupOriginate.DecodeBuffer; PvmKind.IsValid takes 0, 1, 2
SmartRollupOriginateDecodeBuffer(b, p) ==
    LET t == ensureTagAndSize(b, "OpTypeSmartRollupOriginate",
                              p.OperationTagsVersion)
        m == ManagerDecodeBuffer(t.rest,
                                 NewOperation("SmartRollupOriginate"))
        pvm == BufNext(m.rest, 1)
        k == readBytesWithLen(BufSkip(m.rest, 1))
        pr == readBytesWithLen(k.rest)
        ty == readBytesWithLen(pr.rest)
    IN  IF t.err # "" THEN DecodeFailed(t.err)
        ELSE IF m.err # "" THEN DecodeFailed(m.err)
        ELSE IF Len(pvm) # 1 THEN DecodeFailed("short buffer")
        ELSE IF pvm[1] > 2 THEN DecodeFailed("Unsupported PVM type")
        ELSE IF k.err # "" THEN DecodeFailed(k.err)
        ELSE IF pr.err # "" THEN DecodeFailed(pr.err)
        ELSE IF ty.err # "" THEN DecodeFailed(ty.err)
        ELSE Decoded([m.op EXCEPT !.Pvm = pvm[1], !.Kernel = k.val,
                                  !.Proof = pr.val, !.Type = ty.val],
                     ty.rest)

\* SmartRollupExecuteOutboxMessage.DecodeBuffer
SmartRollupExecuteOutboxMessageDecodeBuffer(b, p) ==
    LET t == ensureTagAndSize(b, "OpTypeSmartRollupExecuteOutboxMessage",
                              p.OperationTagsVersion)
        m == ManagerDecodeBuffer(
                 t.rest, NewOperation("SmartRollupExecuteOutboxMessage"))
        c == HashUnmarshalBinary(BufNext(BufSkip(m.rest, 20), 32))
        pr == readBytesWithLen(BufSkip(m.rest, 52))
    IN  IF t.err # "" THEN DecodeFailed(t.err)
        ELSE IF m.err # "" THEN DecodeFailed(m.err)
        ELSE IF pr.err # "" THEN DecodeFailed(pr.err)
        ELSE Decoded([m.op EXCEPT
                          !.Rollup = AddressFromHash(BufNext(m.rest, 20)),
                          !.Cemented = c.val, !.Proof = pr.val], pr.rest)

\* Operation.DecodeBuffer, dispatched on the variant
DecodeBuffer(type, b, p) ==
    CASE type = "Delegation" -> DelegationDecodeBuffer(b, p)
      [] type = "DrainDelegate" -> DrainDelegateDecodeBuffer(b, p)
      [] type = "VdfRevelation" -> VdfRevelationDecodeBuffer(b, p)
      [] type = "Transaction" -> TransactionDecodeBuffer(b, p)
      [] type = "SetDepositsLimit" -> SetDepositsLimitDecodeBuffer(b, p)
      [] type = "IncreasePaidStorage" ->
            IncreasePaidStorageDecodeBuffer(b, p)
      [] type = "Ballot" -> BallotDecodeBuffer(b, p)
      [] type = "Proposals" -> ProposalsDecodeBuffer(b, p)
      [] type = "ActivateAccount" -> ActivateAccountDecodeBuffer(b, p)
      [] type = "DalAttestation" -> DalAttestationDecodeBuffer(b, p)
      [] type = "SmartRollupOriginate" ->
            SmartRollupOriginateDecodeBuffer(b, p)
      [] type = "SmartRollupExecuteOutboxMessage" ->
            SmartRollupExecuteOutboxMessageDecodeBuffer(b, p)
      [] type = "Endorsement" -> EndorsementDecodeBuffer(b, p)
      [] type = "TenderbakeEndorsement" ->
            TenderbakeDecodeBuffer(b, type, p)
      [] type = "TenderbakePreendorsement" ->
            TenderbakeDecodeBuffer(b, type, p)
      [] type = "EndorsementWithSlot" ->
            EndorsementWithSlotDecodeBuffer(b, p)
      [] OTHER -> DecodeFailed("no decoder")

(***************************************************************************)
(* DecodeOp                                                                *)
(* The result is [panic, err, nil, op]: nil says that the *Op returned is  *)
(* nil, op is the Op it points to otherwise.                               *)
(***************************************************************************)
\* the variant DecodeOp instantiates for a kind under the params of the
\* new Op, "" when the switch has no case for it
DecodeVariant(k, p) ==
    CASE k = "OpTypeEndorsement" ->
            IF p.OperationTagsVersion < 2 THEN "Endorsement"
            ELSE "TenderbakeEndorsement"
      [] k = "OpTypePreendorsement" -> "TenderbakePreendorsement"
      [] k = "OpTypeEndorsementWithSlot" -> "EndorsementWithSlot"
      [] k = "OpTypeVdfRevelation" -> "VdfRevelation"
      [] k = "OpTypeDrainDelegate" -> "DrainDelegate"
      [] k = "OpTypeDelegation" -> "Delegation"
      [] k = "OpTypeActivateAccount" -> "ActivateAccount"
      [] k = "OpTypeProposals" -> "Proposals"
      [] k = "OpTypeBallot" -> "Ballot"
      [] k = "OpTypeTransaction" -> "Transaction"
      [] k = "OpTypeSetDepositsLimit" -> "SetDepositsLimit"
      [] k = "OpTypeIncreasePaidStorage" -> "IncreasePaidStorage"
      [] k = "OpTypeSmartRollupOriginate" -> "SmartRollupOriginate"
      [] k = "OpTypeSmartRollupExecuteOutboxMessage" ->
            "SmartRollupExecuteOutboxMessage"
      [] OTHER -> ""

\* Signature.UnmarshalBinary of what buf.Next(64) returned
SignatureUnmarshalBinary(b) ==
    IF Len(b) # SignatureLen
    THEN [err |-> "invalid signature length", val |-> InvalidSignature]
    ELSE [err |-> "", val |-> [Type |-> "ed25519", Data |-> b]]

\* F applied to the value of x, x being computed once
Bind(F(_), x) == CHOOSE v \in {F(y) : y \in {x}} : TRUE

DecodePanic ==
    [panic |-> TRUE, err |-> "", contents |-> <<>>, rest |-> <<>>]

DecodeError(e) ==
    [panic |-> FALSE, err |-> e, contents |-> <<>>, rest |-> <<>>]

\* the content loop where an unknown tag ends the loop whatever is left
RECURSIVE DecodeLoop_AnyTail(_, _, _)
DecodeLoop_AnyTail(buf, contents, p) ==
    IF Len(buf) = 0
    THEN [panic |-> FALSE, err |-> "", contents |-> contents, rest |-> buf]
    ELSE LET type == DecodeVariant(ParseOpTag(buf[1]), p)
         IN  IF type = ""
             THEN [panic |-> FALSE, err |-> "", contents |-> contents,
                   rest |-> buf]
             ELSE Bind(LAMBDA r :
                         IF r.panic THEN DecodePanic
                         ELSE IF r.err # "" THEN DecodeError(r.err)
                         ELSE DecodeLoop_AnyTail(r.rest, Append(contents, r.op), p),
                       DecodeBuffer(type, buf, DefaultParams))

\* the content loop that puts each decoded operation in front
RECURSIVE DecodeLoop_Prepend(_, _, _)
DecodeLoop_Prepend(buf, contents, p) ==
    IF Len(buf) = 0
    THEN [panic |-> FALSE, err |-> "", contents |-> contents, rest |-> buf]
    ELSE LET type == DecodeVariant(ParseOpTag(buf[1]), p)
         IN  IF type = ""
             THEN IF Len(buf) = SignatureLen THEN DecodePanic
                  ELSE DecodeError("tezos: unsupported operation tag")
             ELSE Bind(LAMBDA r :
                         IF r.panic THEN DecodePanic
                         ELSE IF r.err # "" THEN DecodeError(r.err)
                         ELSE DecodeLoop_Prepend(r.rest, <<r.op>> \o contents, p),
                       DecodeBuffer(type, buf, DefaultParams))

\* the content loop, for buf.Len() > 0.  In the default case the break
\* leaves the switch only: op is still nil and op.DecodeBuffer panics.
RECURSIVE DecodeLoop(_, _, _)
DecodeLoop(buf, contents, p) ==
    IF Len(buf) = 0
    THEN [panic |-> FALSE, err |-> "", contents |-> contents, rest |-> buf]
    ELSE LET type == DecodeVariant(ParseOpTag(buf[1]), p)
         IN  IF type = ""
             THEN IF Len(buf) = SignatureLen THEN DecodePanic
                  ELSE DecodeError("tezos: unsupported operation tag")
             ELSE Bind(LAMBDA r :
                         IF r.panic THEN DecodePanic
                         ELSE IF r.err # "" THEN DecodeError(r.err)
                         ELSE DecodeLoop(r.rest, Append(contents, r.op), p),
                       DecodeBuffer(type, buf, DefaultParams))

\* the shortest message DecodeOp accepts: branch and 5 bytes
ShortestMessage == 37

NilResult(e, panicked) ==
    [panic |-> panicked, err |-> e, nil |-> TRUE, op |-> NewOp]

\* DecodeOp without the check for the shortest message
DecodeOp_NoLengthCheck(data) ==
    LET branch == BufNext(data, 32)
    IN  IF Len(branch) # 32 THEN NilResult("invalid hash length", FALSE)
        ELSE Bind(LAMBDA l :
                    IF l.panic THEN NilResult("", TRUE)
                    ELSE IF l.err # "" THEN NilResult(l.err, FALSE)
                    ELSE [panic |-> FALSE, err |-> "", nil |-> FALSE,
                          op |-> [NewOp EXCEPT !.Branch = branch,
                                               !.Contents = l.contents]],
                  DecodeLoop(BufSkip(data, 32), <<>>, DefaultParams))

\* DecodeOp
DecodeOp(data) ==
    IF Len(data) < ShortestMessage THEN NilResult("short buffer", FALSE)
    ELSE Bind(LAMBDA l :
           LET branch == BufNext(data, 32)
               sig == SignatureUnmarshalBinary(BufNext(l.rest, SignatureLen))
               o == [NewOp EXCEPT !.Branch = branch, !.Contents = l.contents]
           IN  IF l.panic THEN NilResult("", TRUE)
               ELSE IF l.err # "" THEN NilResult(l.err, FALSE)
               ELSE IF Len(l.rest) > 0
               THEN IF sig.err # "" THEN NilResult(sig.err, FALSE)
                    ELSE [panic |-> FALSE, err |-> "", nil |-> FALSE,
                          op |-> [o EXCEPT !.Signature = sig.val]]
               ELSE [panic |-> FALSE, err |-> "", nil |-> FALSE, op |-> o],
           DecodeLoop(BufSkip(data, 32), <<>>, DefaultParams))

(***************************************************************************)
(* Decoding calls.  The Op in op is the one whose encoding is decoded;     *)
(* last keeps the buffer given to DecodeOp and what DecodeOp returned.     *)
(***************************************************************************)
\* a valid signature whose first byte is no operation tag
SignatureB == [Type |-> "ed25519", Data |-> <<255>> \o Repeat(7, 63)]

DecodeSignatureInputs == {SignatureA, SignatureB}

VdfRevelationOp ==
    [NewOperation("VdfRevelation") EXCEPT
         !.Solution = Repeat(33, VdfSolutionLen)]

DecodeContentInputs ==
    {DelegationOp(1, 2), DelegationOp(2, InvalidAddress), DrainDelegateOp,
     VdfRevelationOp, ConsensusOp("TenderbakeEndorsement")}

\* what follows the encoded contents in a buffer: nothing, 64 bytes led by
\* no known tag, other lengths led by no known tag, an operation cut
\* short, 64 bytes led by the delegation tag
TailInputs ==
    {<<>>, SignatureB.Data, <<255>> \o Repeat(7, 64), <<255, 1, 2>>,
     BufNext(EncodeBuffer(DelegationOp(1, 2), DefaultParams), 30),
     SignatureA.Data}

\* lengths below the shortest message
ShortLens == {0, 20, 32, 36}

DecodeCall(data, tail) ==
    Bind(LAMBDA d :
           Bind(LAMBDA r :
                  [data |-> d, tail |-> tail, res |-> r]
                      @@ [Returned("DecodeOp") EXCEPT !.err = r.err,
                                                      !.panic = r.panic],
                DecodeOp(d)),
         data)

\* DecodeOp(op.Bytes())
CallDecodeOpBytes ==
    /\ wl.pc = "idle"
    /\ last' = DecodeCall(Bytes(op), <<>>)
    /\ UNCHANGED <<op, wl, mon>>

\* DecodeOp of the branch, the encoded contents and a tail
CallDecodeOp(tail) ==
    /\ wl.pc = "idle"
    /\ last' = DecodeCall(op.Branch
                              \o EncodeContents(op.Contents, DefaultParams)
                              \o tail, tail)
    /\ UNCHANGED <<op, wl, mon>>

\* DecodeOp of the first n bytes of the branch and the encoded contents
CallDecodeOpShort(n) ==
    /\ wl.pc = "idle"
    /\ last' = DecodeCall(BufNext(op.Branch
                                      \o EncodeContents(op.Contents,
                                                        DefaultParams), n),
                          <<>>)
    /\ UNCHANGED <<op, wl, mon>>

NextDecode ==
    \/ \E hash \in BranchInputs : WithBranch(hash)
    \/ \E x \in DecodeContentInputs : WithContents(x)
    \/ \E sig \in DecodeSignatureInputs : WithSignature(sig)
    \/ CallDecodeOpBytes
    \/ \E tail \in TailInputs : CallDecodeOp(tail)
    \/ \E n \in ShortLens : CallDecodeOpShort(n)

SpecDecode == Init /\ [][NextDecode]_vars

(***************************************************************************)
(* Claims about DecodeOp                                                   *)
(***************************************************************************)
\* the buffer DecodeOp was given is the branch, the encoded contents of op
\* and the tail kept in last
DecodedWithTail ==
    /\ last.call = "DecodeOp"
    /\ last.data = op.Branch \o EncodeContents(op.Contents, DefaultParams)
                       \o last.tail

\* a tail led by a byte that is no known operation tag
UnknownTagTail(t) == Len(t) > 0 /\ ParseOpTag(t[1]) = "OpTypeInvalid"

\* a tail led by a known tag whose variant decoder reports an error
BrokenOperationTail(t) ==
    /\ Len(t) > 0
    /\ ParseOpTag(t[1]) # "OpTypeInvalid"
    /\ DecodeBuffer(DecodeVariant(ParseOpTag(t[1]), DefaultParams), t,
                    DefaultParams).err # ""

\* C11: when DecodeOp meets a leading byte that is no known tag and exactly
\* 64 bytes remain, it returns without error and without panic an Op that
\* holds the operations decoded so far and those 64 bytes as signature.
C11_SignatureTailAccepted ==
    (DecodedWithTail /\ UnknownTagTail(last.tail)
         /\ Len(last.tail) = SignatureLen) =>
        /\ ~last.panic
        /\ last.err = ""
        /\ ~last.res.nil
        /\ last.res.op.Contents = op.Contents
        /\ last.res.op.Signature.Data = last.tail

\* C12: an unknown tag with a remaining length other than 64, and an error
\* of a variant decoder, make DecodeOp return an error and a nil Op; no
\* call returns both an error and an Op.
C12_StructuralErrorsAreFatal ==
    /\ (DecodedWithTail
            /\ Len(last.data) >= ShortestMessage
            /\ \/ UnknownTagTail(last.tail) /\ Len(last.tail) # SignatureLen
               \/ BrokenOperationTail(last.tail)) =>
           (~last.panic /\ last.err # "" /\ last.res.nil)
    /\ (last.call = "DecodeOp" /\ last.err # "") => last.res.nil

C12_Witness ==
    /\ DecodedWithTail
    /\ Len(op.Contents) >= 1
    /\ UnknownTagTail(last.tail)
    /\ Len(last.tail) > SignatureLen
    /\ last.err # ""
    /\ last.res.nil

\* C13: a buffer shorter than 37 bytes makes DecodeOp return the short
\* buffer error and a nil Op, without panic.
C13_ShortBufferRejected ==
    (last.call = "DecodeOp" /\ Len(last.data) < 37) =>
        (~last.panic /\ last.err = "short buffer" /\ last.res.nil)

C13_Witness ==
    /\ last.call = "DecodeOp"
    /\ Len(last.data) = 36
    /\ last.err = "short buffer"
    /\ last.res.nil

C20_SignedRoundTrip ==
    (/\ last.call = "DecodeOp"
     /\ last.data = Bytes(op)
     /\ BlockHashIsValid(op.Branch)
     /\ Len(op.Contents) >= 1
     /\ Kind(op.Contents[1]) # "OpTypeEndorsementWithSlot"
     /\ SignatureIsValid(op.Signature)) =>
        /\ ~last.panic
        /\ last.err = ""
        /\ ~last.res.nil
        /\ last.res.op.Contents = op.Contents
        /\ last.res.op.Signature.Data = op.Signature.Data

(***************************************************************************)
(* Round trip of one operation: EncodeBuffer, then DecodeBuffer on the     *)
(* encoding followed by the bytes of whatever comes next in the buffer     *)
(***************************************************************************)
\* longest variable-length field (bytes, list entries) of the inputs
MaxFieldLen == 2

\* values of the Manager fields: single and multi byte numbers
ManagerInputs ==
    {[Source |-> 1, Fee |-> 0, Counter |-> 1, GasLimit |-> 0,
      StorageLimit |-> 0],
     [Source |-> 2, Fee |-> 500, Counter |-> 130, GasLimit |-> 20000,
      StorageLimit |-> 257]}

WithManager(o, m) ==
    [o EXCEPT !.Source = m.Source, !.Fee = m.Fee, !.Counter = m.Counter,
              !.GasLimit = m.GasLimit, !.StorageLimit = m.StorageLimit]

FieldBytes == {Repeat(200, n) : n \in 0..MaxFieldLen}

ManagedRoundTripInputs ==
    {[NewOperation("Delegation") EXCEPT !.Delegate = d] :
        d \in {InvalidAddress, 3}}
    \cup {[NewOperation("Transaction") EXCEPT !.Amount = a,
                                              !.Destination = 3] :
             a \in {0, 1000}}
    \cup {[NewOperation("Transaction") EXCEPT !.Destination = 3,
                                              !.HasParameters = TRUE,
                                              !.Parameters = b] :
             b \in FieldBytes}
    \cup {NewOperation("SetDepositsLimit")}
    \cup {[NewOperation("SetDepositsLimit") EXCEPT !.HasLimit = TRUE,
                                                   !.Limit = l] :
             l \in {0, 300}}
    \cup {[NewOperation("IncreasePaidStorage") EXCEPT !.Amount = a,
                                                      !.Destination = 3] :
             a \in {5, 70}}
    \cup {[NewOperation("SmartRollupOriginate") EXCEPT
               !.Pvm = 1, !.Kernel = k, !.Type = <<3>>] : k \in FieldBytes}
    \cup {[NewOperation("SmartRollupExecuteOutboxMessage") EXCEPT
               !.Rollup = 4, !.Cemented = 6, !.Proof = b] :
             b \in FieldBytes}

SimpleRoundTripInputs ==
    {DrainDelegateOp, VdfRevelationOp,
     [NewOperation("Ballot") EXCEPT !.Source = 1, !.Period = 5,
                                    !.Proposal = 9, !.Ballot = 1],
     [NewOperation("ActivateAccount") EXCEPT !.PublicKeyHash = 1,
                                             !.Secret = Repeat(5, 20)],
     [NewOperation("DalAttestation") EXCEPT !.Attestor = 1,
                                            !.Attestation = 70,
                                            !.Level = 7]}
    \cup {[NewOperation("Proposals") EXCEPT
               !.Source = 1, !.Period = 300,
               !.Proposals = [k \in 1..n |-> 10 + k]] :
             n \in 0..MaxFieldLen}

RoundTripInputs ==
    {WithManager(o, m) : o \in ManagedRoundTripInputs, m \in ManagerInputs}
        \cup SimpleRoundTripInputs

\* what follows the operation in the buffer
TrailerInputs == {<<>>, <<0>>, <<110, 1, 2>>}

\* x.EncodeBuffer(buf, DefaultParams), bytes of the next item, then
\* DecodeBuffer(buf, DefaultParams) on a new value of x's type
CallDecodeBuffer(x, trailer) ==
    /\ wl.pc = "idle"
    /\ LET enc == EncodeBuffer(x, DefaultParams)
           r == DecodeBuffer(x.type, enc \o trailer, DefaultParams)
       IN  last' = [x |-> x, trailer |-> trailer, res |-> r]
                       @@ [Returned("DecodeBuffer") EXCEPT
                               !.err = r.err, !.panic = r.panic,
                               !.out = enc]
    /\ UNCHANGED <<op, wl, mon>>

NextCodec ==
    \E x \in RoundTripInputs, trailer \in TrailerInputs :
        CallDecodeBuffer(x, trailer)

SpecCodec == Init /\ [][NextCodec]_vars

LimitsAdd_NoStorage(x, y) ==
    [Fee |-> x.Fee + y.Fee, GasLimit |-> x.GasLimit + y.GasLimit,
     StorageLimit |-> x.StorageLimit]

LimitsAdd(x, y) ==
    [Fee |-> x.Fee + y.Fee, GasLimit |-> x.GasLimit + y.GasLimit,
     StorageLimit |-> x.StorageLimit + y.StorageLimit]

\* Op.Limits: l = l.Add(v.Limits()) over the contents, from the zero Limits
RECURSIVE LimitsFrom(_, _)
LimitsFrom(contents, l) ==
    IF contents = <<>> THEN l
    ELSE LimitsFrom(Tail(contents), LimitsAdd(l, OperationLimits(Head(contents))))

Limits(o) == LimitsFrom(o.Contents, ZeroLimits)

\* Op.NeedCounter
NeedCounter(o) ==
    \E i \in 1..Len(o.Contents) : GetCounter(o.Contents[i]) = 0

\* Op.WithSource
OpWithSource(o, addr) ==
    [o EXCEPT !.Contents = [i \in 1..Len(@) |-> OperationWithSource(@[i], addr)],
              !.Source = addr]

\* Manager{Source: o.Source, Counter: 0} inside a new operation of type t
NewManaged(o, t) ==
    [NewOperation(t) EXCEPT !.Source = o.Source, !.Counter = 0]

\* micheline.Parameters{Entrypoint: e, Value: Unit}, as its entrypoint tag
EntrypointCall(e) == <<e>>

STAKE == 6

FINALIZE_UNSTAKE == 8

OpWithTransfer(o, to, amount) ==
    [o EXCEPT !.Contents = Append(@,
        [NewManaged(o, "Transaction") EXCEPT !.Amount = amount,
                                             !.Destination = to])]

OpWithCall(o, to, params) ==
    [o EXCEPT !.Contents = Append(@,
        [NewManaged(o, "Transaction") EXCEPT !.Destination = to,
                                             !.HasParameters = TRUE,
                                             !.Parameters = params])]

OpWithCallExt(o, to, params, amount) ==
    [o EXCEPT !.Contents = Append(@,
        [NewManaged(o, "Transaction") EXCEPT !.Amount = amount,
                                             !.Destination = to,
                                             !.HasParameters = TRUE,
                                             !.Parameters = params])]

OpWithOrigination(o) ==
    [o EXCEPT !.Contents = Append(@, NewManaged(o, "Origination"))]

OpWithDelegation(o, to) ==
    [o EXCEPT !.Contents = Append(@,
        [NewManaged(o, "Delegation") EXCEPT !.Delegate = to])]

OpWithUndelegation(o) ==
    [o EXCEPT !.Contents = Append(@, NewManaged(o, "Delegation"))]

OpWithRegisterBaker(o) ==
    [o EXCEPT !.Contents = Append(@,
        [NewManaged(o, "Delegation") EXCEPT !.Delegate = o.Source])]

OpWithStake(o, amount) ==
    OpWithCallExt(o, o.Source, EntrypointCall(STAKE), amount)

OpWithFinalizeUnstake(o) ==
    OpWithCall(o, o.Source, EntrypointCall(FINALIZE_UNSTAKE))

OpWithRegisterConstant(o) ==
    [o EXCEPT !.Contents = Append(@, NewManaged(o, "RegisterGlobalConstant"))]

(***************************************************************************)
(* Calls on the Op under construction                                      *)
(***************************************************************************)
SourceInputs == {1, 2}

DestinationInputs == {2}

AmountInputs == {5}

CounterInputs == {7}

FundedDelegation ==
    [DelegationOp(1, 2) EXCEPT !.Fee = 500, !.GasLimit = 1000,
                               !.StorageLimit = 300]

BuildContentInputs == {FundedDelegation, DrainDelegateOp}

AddInputs ==
    {ZeroLimits, [Fee |-> 1, GasLimit |-> 10, StorageLimit |-> 100],
     [Fee |-> 500, GasLimit |-> 1000, StorageLimit |-> 300]}

\* the result of a builder call; n is the length of Contents before it
Built(name, n) == [n |-> n] @@ Returned(name)

WithSource(addr) ==
    /\ op' = OpWithSource(op, addr)
    /\ last' = [addr |-> addr] @@ Returned("WithSource")
    /\ UNCHANGED <<wl, mon>>

WithTransfer(to, amount) ==
    /\ Len(op.Contents) < MaxContents
    /\ op' = OpWithTransfer(op, to, amount)
    /\ last' = Built("WithTransfer", Len(op.Contents))
    /\ UNCHANGED <<wl, mon>>

WithOrigination ==
    /\ Len(op.Contents) < MaxContents
    /\ op' = OpWithOrigination(op)
    /\ last' = Built("WithOrigination", Len(op.Contents))
    /\ UNCHANGED <<wl, mon>>

WithDelegation(to) ==
    /\ Len(op.Contents) < MaxContents
    /\ op' = OpWithDelegation(op, to)
    /\ last' = Built("WithDelegation", Len(op.Contents))
    /\ UNCHANGED <<wl, mon>>

WithUndelegation ==
    /\ Len(op.Contents) < MaxContents
    /\ op' = OpWithUndelegation(op)
    /\ last' = Built("WithUndelegation", Len(op.Contents))
    /\ UNCHANGED <<wl, mon>>

WithRegisterBaker ==
    /\ Len(op.Contents) < MaxContents
    /\ op' = OpWithRegisterBaker(op)
    /\ last' = Built("WithRegisterBaker", Len(op.Contents))
    /\ UNCHANGED <<wl, mon>>

WithStake(amount) ==
    /\ Len(op.Contents) < MaxContents
    /\ op' = OpWithStake(op, amount)
    /\ last' = Built("WithStake", Len(op.Contents))
    /\ UNCHANGED <<wl, mon>>

WithFinalizeUnstake ==
    /\ Len(op.Contents) < MaxContents
    /\ op' = OpWithFinalizeUnstake(op)
    /\ last' = Built("WithFinalizeUnstake", Len(op.Contents))
    /\ UNCHANGED <<wl, mon>>

WithRegisterConstant ==
    /\ Len(op.Contents) < MaxContents
    /\ op' = OpWithRegisterConstant(op)
    /\ last' = Built("WithRegisterConstant", Len(op.Contents))
    /\ UNCHANGED <<wl, mon>>

\* o.Contents[i].WithCounter(c)
WithCounter(i, c) ==
    /\ i \in 1..Len(op.Contents)
    /\ op' = [op EXCEPT !.Contents[i] = OperationWithCounter(@, c)]
    /\ last' = [i |-> i] @@ Returned("WithCounter")
    /\ UNCHANGED <<wl, mon>>

CallNeedCounter ==
    /\ last' = [res |-> NeedCounter(op)] @@ Returned("NeedCounter")
    /\ UNCHANGED <<op, wl, mon>>

CallLimits ==
    /\ last' = [res |-> Limits(op)] @@ Returned("Limits")
    /\ UNCHANGED <<op, wl, mon>>

\* z = x.Add(y), then further sums of the three values; x and y are the
\* caller's values after the first call
CallAdd(x, y, z) ==
    /\ last' = [x |-> x, y |-> y, z |-> z, xy |-> LimitsAdd(x, y),
                yx |-> LimitsAdd(y, x),
                xy_z |-> LimitsAdd(LimitsAdd(x, y), z),
                x_yz |-> LimitsAdd(x, LimitsAdd(y, z)),
                zero_x |-> LimitsAdd(ZeroLimits, x),
                x_zero |-> LimitsAdd(x, ZeroLimits)]
               @@ Returned("Add")
    /\ UNCHANGED <<op, wl, mon>>

NextBuild ==
    \/ \E a \in SourceInputs : WithSource(a)
    \/ \E x \in BuildContentInputs : WithContents(x)
    \/ \E to \in DestinationInputs, n \in AmountInputs : WithTransfer(to, n)
    \/ WithOrigination
    \/ \E to \in DestinationInputs : WithDelegation(to)
    \/ WithUndelegation
    \/ WithRegisterBaker
    \/ \E n \in AmountInputs : WithStake(n)
    \/ WithFinalizeUnstake
    \/ WithRegisterConstant

SpecBuild == Init /\ [][NextBuild]_vars

\* counters: operations are added, numbered and NeedCounter() is asked
NextCounter ==
    \/ \E x \in BuildContentInputs : WithContents(x)
    \/ \E to \in DestinationInputs, n \in AmountInputs : WithTransfer(to, n)
    \/ \E to \in DestinationInputs : WithDelegation(to)
    \/ \E i \in 1..MaxContents, c \in CounterInputs : WithCounter(i, c)
    \/ CallNeedCounter

SpecCounter == Init /\ [][NextCounter]_vars

\* limits: operations are added and summed, and Add is applied to values
NextAdd ==
    \/ \E x \in BuildContentInputs : WithContents(x)
    \/ CallLimits
    \/ \E x \in AddInputs, y \in AddInputs, z \in AddInputs : CallAdd(x, y, z)

SpecAdd == Init /\ [][NextAdd]_vars

(***************************************************************************)
(* Claims about building an Op                                             *)
(***************************************************************************)
\* the convenience builders that append a manager operation
ConvenienceBuilders ==
    {"WithTransfer", "WithOrigination", "WithDelegation", "WithUndelegation",
     "WithRegisterBaker", "WithStake", "WithFinalizeUnstake",
     "WithRegisterConstant"}

\* C16: a WithSource(a) step leaves Op.Source = a and every manager
\* operation of Contents with source a, and changes no fee-less operation;
\* a convenience builder step appends one manager operation whose source is
\* Op.Source and changes neither Op.Source nor the operations before it.
C16_SourcePropagates ==
    [][/\ last'.call = "WithSource" =>
            /\ op'.Source = last'.addr
            /\ Len(op'.Contents) = Len(op.Contents)
            /\ \A i \in 1..Len(op.Contents) :
                 IF IsManager(op.Contents[i])
                 THEN op'.Contents[i]
                        = [op.Contents[i] EXCEPT !.Source = last'.addr]
                 ELSE op'.Contents[i] = op.Contents[i]
       /\ last'.call \in ConvenienceBuilders =>
            /\ op'.Source = op.Source
            /\ Len(op'.Contents) = Len(op.Contents) + 1
            /\ SubSeq(op'.Contents, 1, Len(op.Contents)) = op.Contents
            /\ IsManager(op'.Contents[Len(op'.Contents)])
            /\ op'.Contents[Len(op'.Contents)].Source = op.Source]_vars

\* a source was set over a manager operation that had another source, and a
\* builder then added an operation with the new source
C16_Witness ==
    /\ last.call = "WithRegisterBaker"
    /\ op.Source = 2
    /\ Len(op.Contents) = 2
    /\ op.Contents[1] = [FundedDelegation EXCEPT !.Source = 2]
    /\ op.Contents[2].Source = 2
    /\ op.Contents[2].Delegate = 2

\* C17: NeedCounter() is true exactly when some manager operation of
\* Contents has counter 0; fee-less operations never make it true, a manager
\* operation just added by a convenience builder makes it true, and it is
\* false when every manager operation has a non-zero counter.
C17_NeedCounterIffUnassigned ==
    /\ last.call = "NeedCounter" =>
         last.res = (\E i \in 1..Len(op.Contents) :
                        /\ op.Contents[i].type \in ManagerTypes
                        /\ op.Contents[i].Counter = 0)
    /\ last.call \in ConvenienceBuilders => NeedCounter(op)
    /\ (\A i \in 1..Len(op.Contents) : ~IsManager(op.Contents[i]))
         => ~NeedCounter(op)
    /\ (\A i \in 1..Len(op.Contents) :
            IsManager(op.Contents[i]) => op.Contents[i].Counter # 0)
         => ~NeedCounter(op)

\* NeedCounter() answered false for a fee-less operation next to a manager
\* operation that a builder added and WithCounter numbered
C17_Witness ==
    /\ last.call = "NeedCounter"
    /\ ~last.res
    /\ \E i, j \in 1..Len(op.Contents) :
         /\ op.Contents[i].type = "DrainDelegate"
         /\ op.Contents[j].type = "Transaction"
         /\ op.Contents[j].Counter = 7

\* component-wise sum of one field over the contents, fee-less operations
\* counting as zero
RECURSIVE SumManaged(_, _)
SumManaged(contents, f) ==
    IF contents = <<>> THEN 0
    ELSE (IF Head(contents).type \in ManagerTypes THEN Head(contents)[f] ELSE 0)
            + SumManaged(Tail(contents), f)

\* C18: Add returns the component-wise sum of the values it was called
\* with, has the zero Limits as identity and is associative and commutative,
\* and Op.Limits() is the component-wise sum over Contents with fee-less
\* operations contributing zero.
C18_LimitsMonoid ==
    /\ last.call = "Add" =>
         /\ last.xy.Fee = last.x.Fee + last.y.Fee
         /\ last.xy.GasLimit = last.x.GasLimit + last.y.GasLimit
         /\ last.xy.StorageLimit = last.x.StorageLimit + last.y.StorageLimit
         /\ last.zero_x = last.x
         /\ last.x_zero = last.x
         /\ last.xy = last.yx
         /\ last.xy_z = last.x_yz
    /\ last.call = "Limits" =>
         /\ last.res.Fee = SumManaged(op.Contents, "Fee")
         /\ last.res.GasLimit = SumManaged(op.Contents, "GasLimit")
         /\ last.res.StorageLimit = SumManaged(op.Contents, "StorageLimit")

\* Limits() of a funded delegation followed by a fee-less operation
C18_Witness ==
    /\ last.call = "Limits"
    /\ Len(op.Contents) = 2
    /\ op.Contents[1] = FundedDelegation
    /\ op.Contents[2] = DrainDelegateOp
    /\ last.res = [Fee |-> 500, GasLimit |-> 1000, StorageLimit |-> 300]

\* the builders that read Op.Source
SourceBuilders ==
    {"WithTransfer", "WithOrigination", "WithDelegation",
     "WithRegisterBaker", "WithStake", "WithFinalizeUnstake",
     "WithRegisterConstant"}

\* C19: a builder that needs the source, called while Op.Source is unset,
\* fails and appends nothing to Contents.
C19_BuilderRequiresSource ==
    (last.call \in SourceBuilders /\ ~AddressIsValid(op.Source))
        => /\ last.panic \/ last.err # ""
           /\ Len(op.Contents) = last.n

(***************************************************************************)
(* Proposals.DecodeBuffer on buffers with any length prefix                *)
(***************************************************************************)
\* binary.Write of an int32: four bytes, two's complement
Int32Bytes(l) ==
    IF l >= 0 THEN BigEndian(l, 4)
    ELSE LET b == BigEndian(l + 2147483647 + 1, 4)
         IN  <<b[1] + 128, b[2], b[3], b[4]>>

\* length prefixes: negative, zero, no multiple of 32, multiples of 32
ProposalsLengthInputs == {-64, -32, -1, 0, 31, 32, 33, 64, 96}

\* how many 32 byte hashes follow the prefix
ProposalsHashCounts == {0, 1, 2}

PeriodInputs == {0, 7}

\* a Proposals message whose length prefix is l and that carries n hashes
ProposalsMessage(src, period, l, n) ==
    <<TagVersion("OpTypeProposals", DefaultParams.OperationTagsVersion)>>
        \o AddressEncode(src) \o Int32Bytes(period) \o Int32Bytes(l)
        \o Flatten([k \in 1..n |-> HashBytes(k)])

\* (&Proposals{}).DecodeBuffer(buf, DefaultParams)
CallProposalsDecode(src, period, l, n) ==
    /\ wl.pc = "idle"
    /\ \E r \in {ProposalsDecodeBuffer(ProposalsMessage(src, period, l, n),
                                       DefaultParams)} :
         last' = [src |-> src, period |-> period, l |-> l,
                  avail |-> 32 * n, res |-> r]
                     @@ [Returned("Proposals.DecodeBuffer") EXCEPT
                             !.err = r.err, !.panic = r.panic]
    /\ UNCHANGED <<op, wl, mon>>

NextProposals ==
    \E src \in SourceInputs, period \in PeriodInputs,
       l \in ProposalsLengthInputs, n \in ProposalsHashCounts :
        CallProposalsDecode(src, period, l, n)

SpecProposals == Init /\ [][NextProposals]_vars

\* C21: Proposals.DecodeBuffer returns an error, and does not panic, when
\* the length prefix is negative, is no multiple of 32 or is larger than
\* the number of bytes that follow it.
C21_BadLengthIsError ==
    (/\ last.call = "Proposals.DecodeBuffer"
     /\ \/ last.l < 0
        \/ last.l % 32 # 0
        \/ last.l > last.avail)
        => ~last.panic /\ last.err # ""

(***************************************************************************)
(* Properties of WithLimits and WithMinFee                                 *)
(***************************************************************************)
\* C22: WithLimits with fewer limits than operations returns normally; the
\* operations that have a limits entry are updated and every operation
\* from index len(limits) on keeps its fee, gas limit and storage limit.
C22_ShortLimitsListIsSkipped ==
    [][(last'.call = "WithLimits" /\ Len(last'.limits) < Len(op.Contents))
          => /\ ~last'.panic
             /\ Len(op'.Contents) = Len(op.Contents)
             /\ \A k \in 1..Len(op.Contents) :
                   k > Len(last'.limits) =>
                       OperationLimits(op'.Contents[k])
                           = OperationLimits(op.Contents[k])]_vars

\* C23: after WithLimits(limits, margin) has returned, manager operation i
\* has gas limit limits[i].GasLimit + margin, and storage limit
\* limits[i].StorageLimit + margin when limits[i].StorageLimit > 0 and
\* limits[i].StorageLimit otherwise.
C23_MarginOnGasAndPositiveStorage ==
    (last.call = "WithLimits" /\ ~last.panic) =>
        \A k \in 1..Len(op.Contents) :
            IsManager(op.Contents[k]) =>
                /\ op.Contents[k].GasLimit
                      = last.limits[k].GasLimit + last.margin
                /\ last.limits[k].StorageLimit > 0 =>
                      op.Contents[k].StorageLimit
                          = last.limits[k].StorageLimit + last.margin
                /\ last.limits[k].StorageLimit <= 0 =>
                      op.Contents[k].StorageLimit
                          = last.limits[k].StorageLimit

\* a margin of 100 went on a positive storage limit and not on a zero one
C23_Witness ==
    /\ last.call = "WithLimits"
    /\ ~last.panic
    /\ last.margin = 100
    /\ Len(op.Contents) = 2
    /\ IsManager(op.Contents[1]) /\ IsManager(op.Contents[2])
    /\ last.limits[1].StorageLimit = 0 /\ op.Contents[1].StorageLimit = 0
    /\ last.limits[2].StorageLimit = 300
    /\ op.Contents[2].StorageLimit = 400
    /\ op.Contents[2].GasLimit = 1100

\* C24: after WithLimits(limits, margin) has returned, manager operation i
\* has a fee of at least limits[i].Fee, and exactly limits[i].Fee when that
\* covers the minimum fee of the operation encoded with it; the fee is the
\* larger of limits[i].Fee and the minimum fee counted with the header
\* bytes for the first operation and without them for every other one.
C24_UserFeeHonoredHeaderOnFirst ==
    (last.call = "WithLimits" /\ ~last.panic) =>
        \A k \in 1..Len(op.Contents) :
            IsManager(op.Contents[k]) =>
                LET user == last.limits[k].Fee
                    gas == last.limits[k].GasLimit + last.margin
                    asked == [op.Contents[k] EXCEPT !.Fee = user]
                IN  /\ op.Contents[k].Fee >= user
                    /\ user >= CalculateMinFee(asked, gas, k = 1, op.Params)
                          => op.Contents[k].Fee = user
                    /\ op.Contents[k].Fee
                          = max64(user,
                                  CalculateMinFee(op.Contents[k], gas,
                                                  k = 1, op.Params))

\* two delegations with the same limits and no fee asked for: the first
\* pays for the 96 header bytes, the second does not
C24_Witness ==
    /\ last.call = "WithLimits"
    /\ ~last.panic
    /\ Len(op.Contents) = 2
    /\ IsManager(op.Contents[1]) /\ IsManager(op.Contents[2])
    /\ last.limits[1].Fee = 0 /\ last.limits[2].Fee = 0
    /\ last.limits[1].GasLimit = last.limits[2].GasLimit
    /\ op.Contents[1].Fee = op.Contents[2].Fee + 96

\* C25 as stated: after WithMinFee() every manager operation keeps its gas
\* and storage limit, its fee is not lower than before and is at least the
\* minimum fee of the operation as it is encoded with the new fee.
C25_FeeCoversNewEncoding ==
    (last.call = "WithMinFee" /\ ~last.panic) =>
        \A k \in 1..Len(op.Contents) :
            IsManager(op.Contents[k]) =>
                /\ op.Contents[k].GasLimit = last.before[k].GasLimit
                /\ op.Contents[k].StorageLimit = last.before[k].StorageLimit
                /\ op.Contents[k].Fee >= last.before[k].Fee
                /\ op.Contents[k].Fee
                      >= CalculateMinFee(op.Contents[k],
                                         op.Contents[k].GasLimit, k = 1,
                                         op.Params)

\* C25 amended: after WithMinFee() every manager operation keeps its gas
\* and storage limit and its fee is the larger of the fee it had and the
\* minimum fee of the operation as it was encoded before the call, the
\* header bytes counted for the first operation only.
C25_FeeCoversOldEncoding ==
    (last.call = "WithMinFee" /\ ~last.panic) =>
        \A k \in 1..Len(op.Contents) :
            IsManager(op.Contents[k]) =>
                /\ op.Contents[k].GasLimit = last.before[k].GasLimit
                /\ op.Contents[k].StorageLimit = last.before[k].StorageLimit
                /\ op.Contents[k].Fee >= last.before[k].Fee
                /\ op.Contents[k].Fee
                      = max64(last.before[k].Fee,
                              CalculateMinFee(last.before[k],
                                              last.before[k].GasLimit,
                                              k = 1, op.Params))

\* WithMinFee() raised the fee of the first of two operations from zero
\* to a value that takes two bytes, so the operation is a byte longer than
\* the one the fee was computed for
C25_Witness ==
    /\ last.call = "WithMinFee"
    /\ ~last.panic
    /\ Len(op.Contents) = 2
    /\ IsManager(op.Contents[1]) /\ IsManager(op.Contents[2])
    /\ last.before[1].Fee = 0
    /\ op.Contents[1].Fee >= 128
    /\ op.Contents[1].Fee
          < CalculateMinFee(op.Contents[1], op.Contents[1].GasLimit, TRUE,
                            op.Params)

(***************************************************************************)
(* DecodeOp on every variant that has an encoder                           *)
(***************************************************************************)
\* one operation of each variant with an EncodeBuffer in the package
EncodableInputs ==
    SimpleRoundTripInputs
        \cup {ConsensusOp("TenderbakeEndorsement"), DelegationOp(1, 2)}
        \cup {[o EXCEPT !.Source = 1, !.Counter = 1] :
                 o \in {x \in ManagedRoundTripInputs :
                           /\ x.type # "Delegation"
                           /\ x.Amount \in {0, 5}
                           /\ ~x.HasLimit
                           /\ Len(x.Parameters) + Len(x.Kernel)
                                 + Len(x.Proof) = 0}}

NextDecodeAll ==
    \/ \E hash \in BranchInputs : WithBranch(hash)
    \/ \E x \in EncodableInputs : WithContents(x)
    \/ CallDecodeOpBytes

SpecDecodeAll == Init /\ [][NextDecodeAll]_vars

\* C26: for an unsigned Op with a valid branch made of variants the package
\* can encode, DecodeOp(op.Bytes()) returns no error and the i-th operation
\* returned is of the variant of the i-th operation encoded.
C26_EveryEncodableVariantDecodes ==
    (/\ last.call = "DecodeOp"
     /\ last.data = Bytes(op)
     /\ BlockHashIsValid(op.Branch)
     /\ Len(op.Contents) >= 1
     /\ ~SignatureIsValid(op.Signature))
        => /\ ~last.panic
           /\ last.err = ""
           /\ ~last.res.nil
           /\ Len(last.res.op.Contents) = Len(op.Contents)
           /\ \A i \in 1..Len(op.Contents) :
                 last.res.op.Contents[i].type = op.Contents[i].type

(***************************************************************************)
(* RPC monitors                                                            *)
(*                                                                         *)
(* BootstrapMonitor, BlockHeaderMonitor, MempoolMonitor, NetworkPeerMonitor *)
(* and NetworkPointMonitor share one body for Send, Recv, Err and Close:   *)
(* two unbuffered channels, result and closed, and an error field.  One    *)
(* goroutine sends, one receives and two close; every action is one step   *)
(* of one goroutine.  mon.closed and mon.result say whether the channel of *)
(* that name has been closed.  Contexts are never cancelled.               *)
(***************************************************************************)
ErrMonitorClosed == "monitor closed"

EOF == "EOF"

ErrInputs == {"e1", "e2"}

Closers == {1, 2}

\* a goroutine panics: the process ends, no goroutine takes another step
MonitorPanic(msg) ==
    /\ mon' = [mon EXCEPT !.panic = msg]
    /\ UNCHANGED <<op, last, wl>>

\* Recv returns (val, err) to its caller
RecvReturns(val, err) ==
    /\ last' = [val |-> val, after |-> mon.after, called |-> mon.called]
                   @@ [Returned("Recv") EXCEPT !.err = err]
    /\ UNCHANGED <<op, wl>>

\* Send is called
SendCall ==
    /\ mon.panic = ""
    /\ mon.send = "idle"
    /\ mon' = [mon EXCEPT !.send = "check"]
    /\ UNCHANGED <<op, last, wl>>

\* Send, first select: return when closed is closed, go on otherwise
SendCheck ==
    /\ mon.panic = ""
    /\ mon.send = "check"
    /\ mon' = [mon EXCEPT !.send = IF mon.closed THEN "idle" ELSE "select"]
    /\ UNCHANGED <<op, last, wl>>

\* Send, second select, while no receiver takes the value: the case
\* <-m.closed is ready once closed is closed, the case m.result <- val is
\* ready once result is closed and panics when it is the one chosen
SendSelect ==
    /\ mon.panic = ""
    /\ mon.send = "select"
    /\ \/ /\ mon.closed
          /\ mon' = [mon EXCEPT !.send = "idle"]
          /\ UNCHANGED <<op, last, wl>>
       \/ /\ mon.result
          /\ MonitorPanic("send on closed channel")

\* the case m.result <- val of Send meets the case <-m.result of Recv
Deliver ==
    /\ mon.panic = ""
    /\ mon.send = "select"
    /\ mon.recv = "select"
    /\ ~mon.result
    /\ mon' = [mon EXCEPT !.send = "idle", !.recv = "idle"]
    /\ RecvReturns("block", "")

\* Recv is called; after: a Close or Err call had returned before
RecvCall ==
    /\ mon.panic = ""
    /\ mon.recv = "idle"
    /\ mon' = [mon EXCEPT !.recv = "select", !.after = mon.done]
    /\ UNCHANGED <<op, last, wl>>

\* Recv, the cases of its select that are ready without a sender: closed is
\* closed, or result is closed
RecvSelect ==
    /\ mon.panic = ""
    /\ mon.recv = "select"
    /\ mon' = [mon EXCEPT !.recv = "idle"]
    /\ \/ /\ mon.closed
          /\ RecvReturns("", IF mon.err = "" THEN ErrMonitorClosed ELSE mon.err)
       \/ /\ mon.result
          /\ RecvReturns("", IF mon.err # "" THEN mon.err ELSE EOF)

\* Close is called by goroutine g
CloseCall(g) ==
    /\ mon.panic = ""
    /\ mon.close[g] = "idle"
    /\ mon' = [mon EXCEPT !.close[g] = "check",
                          !.called = @ \cup {"Close"}]
    /\ UNCHANGED <<op, last, wl>>

\* Err(e) is called by goroutine g: it stores e, then calls Close
ErrCall(g, e) ==
    /\ mon.panic = ""
    /\ mon.close[g] = "idle"
    /\ mon' = [mon EXCEPT !.err = e, !.close[g] = "check",
                          !.called = @ \cup {e}]
    /\ UNCHANGED <<op, last, wl>>

\* Close, the select: return when closed is closed, go on otherwise
CloseCheck(g) ==
    /\ mon.panic = ""
    /\ mon.close[g] = "check"
    /\ mon' = IF mon.closed
              THEN [mon EXCEPT !.close[g] = "idle", !.done = TRUE]
              ELSE [mon EXCEPT !.close[g] = "closeClosed"]
    /\ UNCHANGED <<op, last, wl>>

\* Close, close(m.closed)
CloseClosed(g) ==
    /\ mon.panic = ""
    /\ mon.close[g] = "closeClosed"
    /\ IF mon.closed
       THEN MonitorPanic("close of closed channel")
       ELSE /\ mon' = [mon EXCEPT !.closed = TRUE,
                                  !.close[g] = "closeResult"]
            /\ UNCHANGED <<op, last, wl>>

\* Close, close(m.result), and the return
CloseResult(g) ==
    /\ mon.panic = ""
    /\ mon.close[g] = "closeResult"
    /\ IF mon.result
       THEN MonitorPanic("close of closed channel")
       ELSE /\ mon' = [mon EXCEPT !.result = TRUE, !.close[g] = "idle",
                                  !.done = TRUE]
            /\ UNCHANGED <<op, last, wl>>

NextMonitor ==
    \/ SendCall
    \/ SendCheck
    \/ SendSelect
    \/ Deliver
    \/ RecvCall
    \/ RecvSelect
    \/ \E g \in Closers : CloseCall(g)
    \/ \E g \in Closers, e \in ErrInputs : ErrCall(g, e)
    \/ \E g \in Closers : CloseCheck(g)
    \/ \E g \in Closers : CloseClosed(g)
    \/ \E g \in Closers : CloseResult(g)

SpecMonitor == Init /\ [][NextMonitor]_vars

\* C27: whatever the interleaving of Send, Recv, Close and Err calls made
\* by different goroutines, and however often Close and Err are called, no
\* goroutine panics.
C27_NoPanicUnderConcurrency ==
    mon.panic = ""

\* C28: a Recv that is called after a Close or Err call has returned does
\* not block and returns no value and a fixed error: e when the monitor was
\* closed through Err(e) only, ErrMonitorClosed when it was closed through
\* Close only.
C28_RecvAfterCloseIsDeterministic ==
    /\ (mon.panic = "" /\ mon.recv = "select" /\ mon.after) => mon.closed
    /\ (last.call = "Recv" /\ last.after) =>
           /\ last.val = ""
           /\ last.called = {"Close"} => last.err = ErrMonitorClosed
           /\ \A e \in ErrInputs : last.called = {e} => last.err = e

(***************************************************************************)
(* Signers                                                                 *)
(*                                                                         *)
(* MemorySigner.SignMessage signs the digest of Op.Bytes() with its key;   *)
(* RemoteSigner.SignMessage posts Op.WatermarkedBytes() to the signing     *)
(* service, which hashes and signs what it receives.  The pre-image of a   *)
(* call is the byte string whose digest gets signed.                       *)
(***************************************************************************)
ErrAddressMismatch == "signer: address mismatch"

\* longest message of the inputs
MaxMessageLen == 3

MessageInputs == SeqsUpTo({0, 65, 66}, MaxMessageLen)

SignerAddressInputs == {1, 2}

\* PrivateKey.Address(): one address per key
KeyAddress(k) == k + 1

\* codec.NewOp().WithBranch(mavryk.ZeroBlockHash).WithContents(
\*     &codec.FailingNoop{Arbitrary: msg})
MessageOp(msg) ==
    [NewOp EXCEPT
        !.Branch = ZeroBlockHash,
        !.Contents = <<[NewOperation("FailingNoop") EXCEPT
                            !.Arbitrary = msg]>>]

\* the bytes MemorySigner.SignMessage hashes and signs
MemorySignerPreimage(msg) == Bytes(MessageOp(msg))

\* the bytes RemoteSigner.SignOperation posts for RemoteSigner.SignMessage
RemoteSignerPreimage(msg) == WatermarkedBytes(MessageOp(msg))

\* MemorySigner.SignMessage
MemorySignMessage(key, addr, msg) ==
    /\ wl.pc = "idle"
    /\ last' = [signer |-> "memory", addr |-> addr, msg |-> msg,
                preimage |-> IF KeyAddress(key) # addr THEN <<>>
                             ELSE MemorySignerPreimage(msg),
                sig |-> IF KeyAddress(key) # addr \/ KeySignFails(key)
                        THEN InvalidSignature
                        ELSE KeySign(key, Digest(MemorySignerPreimage(msg)))]
                   @@ [Returned("SignMessage") EXCEPT
                          !.key = key,
                          !.err = IF KeyAddress(key) # addr
                                  THEN ErrAddressMismatch
                                  ELSE IF KeySignFails(key)
                                  THEN "invalid key" ELSE ""]
    /\ UNCHANGED <<op, wl, mon>>

\* RemoteSigner.SignMessage: the request body of the post to /keys/<addr>;
\* the signature is the service's answer
RemoteSignMessage(addr, msg, answer) ==
    /\ wl.pc = "idle"
    /\ last' = [signer |-> "remote", addr |-> addr, msg |-> msg,
                preimage |-> RemoteSignerPreimage(msg),
                sig |-> IF answer = InvalidKey THEN InvalidSignature
                        ELSE KeySign(answer,
                                     Digest(RemoteSignerPreimage(msg)))]
                   @@ [Returned("SignMessage") EXCEPT
                          !.err = IF answer = InvalidKey
                                  THEN "rpc: request failed" ELSE ""]
    /\ UNCHANGED <<op, wl, mon>>

NextSigner ==
    \/ \E k \in Keys, a \in SignerAddressInputs, m \in MessageInputs :
          MemorySignMessage(k, a, m)
    \/ \E a \in SignerAddressInputs, m \in MessageInputs, k \in Keys :
          RemoteSignMessage(a, m, k)

SpecSigner == Init /\ [][NextSigner]_vars

\* the failing-noop operation of a message, serialized: the zero branch and
\* the operation, with or without the operation watermark in front
MessageSerializations(msg) ==
    LET body == ZeroBlockHash
                    \o FailingNoopEncodeBuffer(
                           [NewOperation("FailingNoop") EXCEPT
                               !.Arbitrary = msg], DefaultParams)
    IN  {body, <<OperationWatermark>> \o body}

\* C29: a SignMessage call of either signer that returns a signature has
\* signed the bytes the other signer signs for the same message, and these
\* bytes are a serialization of the failing-noop operation that wraps the
\* message under the zero branch.
C29_SignersShareThePreimage ==
    (last.call = "SignMessage" /\ last.err = "") =>
        /\ last.preimage = MemorySignerPreimage(last.msg)
        /\ last.preimage = RemoteSignerPreimage(last.msg)
        /\ last.preimage \in MessageSerializations(last.msg)

(***************************************************************************)
(* Protocol deployments                                                    *)
(*                                                                         *)
(* A Deployment is Protocol, StartOffset, StartHeight, EndHeight,          *)
(* StartCycle, ConsensusRightsDelay, BlocksPerCycle, BlocksPerSnapshot.    *)
(***************************************************************************)
Deployment(proto, off, start, end, cycle, delay, bpc, bps) ==
    [Protocol |-> proto, StartOffset |-> off, StartHeight |-> start,
     EndHeight |-> end, StartCycle |-> cycle, ConsensusRightsDelay |-> delay,
     BlocksPerCycle |-> bpc, BlocksPerSnapshot |-> bps]

\* the zero value of Deployment
ZeroDeployment == Deployment("", 0, 0, 0, 0, 0, 0, 0)

\* the composite literal of Deployments in source order, each entry with
\* the chain id its key evaluates to; Atlasnet and Boreasnet are the same
\* chain id
DeploymentsLiteral ==
    << [key |-> "NetXdQprcVkpaWU", history |->
          << Deployment("ProtoGenesis", 0, 0, 0, 0, 5, 4096, 256),
             Deployment("ProtoBootstrap", 0, 1, 1, 0, 5, 4096, 256),
             Deployment("PtAtLas", 0, 5070849, 5726208, 703, 5, 16384, 1024),
             Deployment("PtBoreas", 0, 5726209, -1, 743, 2, 24576, 24576) >>],
       [key |-> "NetXnHfVqm9iesp", history |->
          << Deployment("ProtoGenesis", 0, 0, 0, 0, 3, 4096, 256),
             Deployment("ProtoBootstrap", 0, 1, 1, 0, 3, 4096, 256),
             Deployment("PtAtLas", 0, 5316609, 6422528, 913, 3, 8192, 512),
             Deployment("PtBoreas", 0, 6422529, -1, 1048, 2, 12288, 12288) >>],
       [key |-> "NetXvyTAafh8goH", history |->
          << Deployment("ProtoGenesis", 0, 0, 0, 0, 3, 4096, 256),
             Deployment("ProtoBootstrap", 0, 1, 1, 0, 3, 8192, 512),
             Deployment("PtAtLas", 0, 16385, -1, 2, 3, 8192, 512) >>],
       [key |-> "NetXvyTAafh8goH", history |->
          << Deployment("ProtoGenesis", 0, 0, 0, 0, 3, 8192, 512),
             Deployment("ProtoBootstrap", 0, 1, 1, 0, 3, 8192, 512),
             Deployment("PtAtLas", 2, 2, 8192, 0, 3, 8192, 512),
             Deployment("PtBoreas", 0, 8193, -1, 1, 2, 12288, 12288) >> ] >>

\* the map the literal builds: a later entry replaces an earlier entry of
\* the same key
Deployments ==
    [k \in {DeploymentsLiteral[i].key : i \in DOMAIN DeploymentsLiteral} |->
        LET last_i == CHOOSE i \in DOMAIN DeploymentsLiteral :
                         /\ DeploymentsLiteral[i].key = k
                         /\ \A j \in DOMAIN DeploymentsLiteral :
                               DeploymentsLiteral[j].key = k => j <= i
        IN  DeploymentsLiteral[last_i].history]

\* ProtocolHistory.Last
HistoryLast(h) == IF Len(h) > 0 THEN h[Len(h)] ELSE ZeroDeployment

\* the loop of ProtocolHistory.AtBlock from index i (one-based) downwards
RECURSIVE AtBlockFrom(_, _, _)
AtBlockFrom(h, height, i) ==
    IF i < 1 THEN HistoryLast(h)
    ELSE IF h[i].StartHeight <= height THEN h[i]
    ELSE AtBlockFrom(h, height, i - 1)

\* ProtocolHistory.AtBlock
AtBlock(h, height) == AtBlockFrom(h, height, Len(h))

\* ProtocolHistory.AtCycle
RECURSIVE AtCycleFrom(_, _, _)
AtCycleFrom(h, cycle, i) ==
    IF i < 1 THEN HistoryLast(h)
    ELSE IF h[i].StartCycle <= cycle THEN h[i]
    ELSE AtCycleFrom(h, cycle, i - 1)

AtCycle(h, cycle) == AtCycleFrom(h, cycle, Len(h))

\* Params.ContainsHeight on the heights of a deployment
ContainsHeight(d, height) ==
    d.StartHeight <= height /\ (d.EndHeight < 0 \/ d.EndHeight >= height)

\* heights around every start and end of every history
HeightInputs ==
    {0} \cup
    {x \in UNION {{d.StartHeight + k, d.EndHeight + k} :
                     d \in UNION {{Deployments[n][i] :
                                      i \in DOMAIN Deployments[n]} :
                                  n \in DOMAIN Deployments},
                     k \in -2..2} : x >= 0}

CycleInputs == {0, 1, 2, 3, 702, 703, 742, 743, 744, 913, 1048}

CallAtBlock(net, height) ==
    /\ wl.pc = "idle"
    /\ last' = [net |-> net, height |-> height,
                d |-> AtBlock(Deployments[net], height)]
                   @@ Returned("AtBlock")
    /\ UNCHANGED <<op, wl, mon>>

CallAtCycle(net, cycle) ==
    /\ wl.pc = "idle"
    /\ last' = [net |-> net, cycle |-> cycle,
                d |-> AtCycle(Deployments[net], cycle)]
                   @@ Returned("AtCycle")
    /\ UNCHANGED <<op, wl, mon>>

NextHistory ==
    \/ \E n \in DOMAIN Deployments, x \in HeightInputs : CallAtBlock(n, x)
    \/ \E n \in DOMAIN Deployments, c \in CycleInputs : CallAtCycle(n, c)

SpecHistory == Init /\ [][NextHistory]_vars

\* C30: for every network of Deployments and every height h >= 0 the
\* deployment AtBlock(h) selects contains h: its StartHeight is <= h and
\* its EndHeight is -1 or >= h.
C30_AtBlockContainsHeight ==
    last.call = "AtBlock" => ContainsHeight(last.d, last.height)

====
